---- MODULE Spec2Model ----
(***************************************************************************)
(* Security perimeter of 2GETPRO-v2: the sliding window rate limiter       *)
(* (security/rate_limiter/redis_rate_limiter.py) over a Redis store, and   *)
(* the aiogram middleware that escalates from rate limiting to a temporary *)
(* block (security/rate_limiter/middleware.py).                            *)
(*                                                                         *)
(* Time is a discrete wall clock `now` counted in ticks, TicksPerSec ticks *)
(* to the second.  A coroutine reads the clock when it is called           *)
(* (time.time()) and each await of a store command is one atomic step, so  *)
(* the steps of concurrent coroutines interleave and the clock may or may  *)
(* not advance between any two steps.                                      *)
(***************************************************************************)
EXTENDS Integers, FiniteSets, Sequences, TLC

\* ---------------------------------------------------------------- bounds
MaxTime == 4       \* the clock is explored up to this tick
MaxCalls == 3      \* calls (or requests) started in one behaviour

MaxLimit == 2      \* limits 1..MaxLimit
MaxWindow == 1     \* windows 1..MaxWindow seconds
MaxRequests == 4   \* requests that the middleware receives in one behaviour
MaxLatency == 1    \* a call returns within this many ticks of reading the clock
ScenarioRequests == 14   \* requests sent in the spam escalation scenario
ScenarioTime == 14       \* the tick up to which the scenario's clock is explored
MaxChecks == 3     \* PermissionChecker calls made in one behaviour
MaxEdits == 2      \* edits of the IP whitelist made in one behaviour
SerialRequests == 6   \* requests that are served one at a time in one behaviour
MaxDelay == 2      \* a held back call returns within this many ticks of reading the clock
PipeRequests == 4  \* requests that arrive in a run of the governed request
IsolatedTime == 2  \* the last tick of a run of the requests of two principals
LongText == 101    \* the length of a text longer than the 100 characters that are stored

\* time.time() is a float of seconds with sub-second resolution: the clock
\* of the model has TicksPerSec values per second.
TicksPerSec == 2

Procs == {1, 2}
ZKeys == {"user", "spam"}     \* the sorted-set keys "user:<id>" and "spam:<id>"
NoTTL == -1                   \* the key does not exist

VARIABLES
    now,        \* wall clock, in ticks
    zs,         \* zs[k]: the sorted set stored at key k, a set of [member, score]
    ttl,        \* ttl[k]: the tick at which key k expires, NoTTL when k does not exist
    conf,       \* conf[k]: the (limit, window) the callers use for key k
    rl,         \* rl[p]: the frame of the rate limiter call coroutine p is in
    block,      \* the tick at which the block record "blocked:<id>" expires, NoTTL when absent
    mw,         \* mw[p]: the frame of the middleware call coroutine p is in
    left,       \* calls (or requests) that may still start
    horizon,    \* the tick up to which the clock is explored
    last,       \* last[k]: the latest timestamp of a call on key k, -1 before the first;
                \* last["blocked"]: the tick of the latest write of the block record
    admitted,   \* admitted[k][t]: check_rate_limit calls on k with timestamp t that returned allowed
    ROLE_PERMISSIONS,  \* the module's role -> permission set table, as it stands
    cache,      \* PermissionChecker._cache: per principal no entry, a role's own set object or a set of its own
    db,         \* db[u]: the role column of the principal's row in the identity store
    session,    \* PermissionChecker.db_session is set
    ac,         \* ac[p]: the frame of the PermissionChecker call coroutine p is in
    written,    \* written[u]: the latest grant or revoke that concerns u, none after a clear
    secrets,    \* SignatureValidator.secrets: the secret of each provider, "none" when the key is missing
    whitelists, \* IPWhitelist.whitelists: per provider id no entry or a set of networks
    wh,         \* the frame of the webhook call that is made: its arguments and what it returned
    redis,      \* redis[k]: what the store holds at key k of the governed requests
    greq        \* greq[c]: the frame of the governed request coroutine c serves

\* The state of the webhook validator.
whVars == <<secrets, whitelists, wh>>

\* The state of the governed requests.
pipeVars == <<redis, greq>>

\* The state of the access control registry.
acVars == <<ROLE_PERMISSIONS, cache, db, session, ac, written>>

\* The state of the rate limiter, the middleware and their store, the count
\* of calls left apart.
storeVars == <<now, zs, ttl, conf, rl, block, mw, horizon, last, admitted>>

vars ==
    <<now, zs, ttl, conf, rl, block, mw, left, horizon, last, admitted, acVars, whVars,
      pipeVars>>

Time == 0..horizon

\* ------------------------------------------------------ the store (Redis)
\* str(current_time): repr of a float is one string per value.
Str(t) == <<"str", t>>

\* ZREMRANGEBYSCORE key lo hi: both ends inclusive.
ZRemRangeByScore(z, lo, hi) == {e \in z : ~(lo <= e.score /\ e.score <= hi)}

\* ZADD key {member: score}: a member that is already there keeps one entry.
ZAdd(z, m, s) == {e \in z : e.member # m} \cup {[member |-> m, score |-> s]}

\* ZREM key member
ZRem(z, m) == {e \in z : e.member # m}

\* ZCARD key
ZCard(z) == Cardinality(z)

\* ZRANGE key 0 0 WITHSCORES: the entry of lowest score, as a sequence of
\* at most one entry.
ZRangeFirst(z) ==
    IF z = {} THEN <<>>
    ELSE <<CHOOSE e \in z : \A f \in z : e.score <= f.score>>

\* Mutant of ExpireAt: the key lives one tick longer than asked.
ExpireAtLate(seconds) == now + seconds * TicksPerSec + 1

\* EXPIRE key seconds, run by the server at its clock: the tick of expiry.
ExpireAt(seconds) == now + seconds * TicksPerSec

\* A sorted set that becomes empty is deleted by Redis, and its TTL with it.
TtlAfter(z, t) == IF z = {} THEN NoTTL ELSE t

\* int(x) of Python for x = num / TicksPerSec: truncation toward zero.
IntTrunc(num) ==
    IF num >= 0 THEN num \div TicksPerSec ELSE -((-num) \div TicksPerSec)

\* ------------------------------------------------------------ the frames
\* A rate limiter frame.  pc is the await the coroutine is suspended at;
\* ct is current_time; count, allowed and reset are the returned tuple.
\* The other fields are history.  id numbers the call.  solo says that no
\* other call overlapped this one.  pre is the sorted set as the call found
\* it.  created says that the call's ZADD made a new entry.  genuine is the
\* number of counted entries that no rejected attempt in flight had created.
\* quiet says that the key had received no call for `window` seconds when
\* this call read the clock.  rival is the id of the call this one raced
\* with for the last free slot of the window (0: none).
Frame(pc, op, k, limit, window, solo) ==
    [pc |-> pc, op |-> op, key |-> k, limit |-> limit, window |-> window,
     ct |-> now, count |-> 0, allowed |-> TRUE, reset |-> window,
     solo |-> solo, pre |-> zs[k], genuine |-> 0, created |-> FALSE,
     fault |-> FALSE, id |-> left, rival |-> 0,
     quiet |-> (last[k] = -1 \/ now - last[k] >= window * TicksPerSec)]

IdleFrame ==
    [pc |-> "idle", op |-> "none", key |-> "user", limit |-> 1, window |-> 1,
     ct |-> 0, count |-> 0, allowed |-> TRUE, reset |-> 1,
     solo |-> TRUE, pre |-> {}, genuine |-> 0, created |-> FALSE,
     fault |-> FALSE, id |-> 0, rival |-> 0, quiet |-> TRUE]

InFlight(p) == rl[p].pc \notin {"idle", "done"}

\* No other coroutine is inside a rate limiter call.
Alone(p) == \A q \in Procs \ {p} : ~InFlight(q)

\* check_rate_limit, lines 56-75: the clock is read and the pipeline is
\* built; the coroutine is suspended at `await pipe.execute()`.
CheckFrame(p, k, limit, window) == Frame("pipeline", "check", k, limit, window, Alone(p))

\* increment, lines 116-123.
IncrFrame(p, k, window) == Frame("incr", "incr", k, 1, window, Alone(p))

\* get_remaining, lines 165-171: suspended at the ZREMRANGEBYSCORE.
RemainingFrame(p, k, limit, window) == Frame("prune", "remaining", k, limit, window, Alone(p))

\* The frames after coroutine p has entered call f: a call that starts
\* ends the solitude of the calls that are in flight.
Enter(p, f) ==
    [q \in Procs |->
        IF q = p THEN f
        ELSE IF InFlight(q) THEN [rl[q] EXCEPT !.solo = FALSE]
        ELSE rl[q]]

\* window_start = current_time - window, in ticks.
WindowStart(f) == f.ct - f.window * TicksPerSec

\* The calls that race with p's for the last slot when p's transaction runs
\* and finds `pruned`: they wait for their own transaction on the same key
\* with the same limit, and the limit-1 entries lie in their window too.
Rivals(p, pruned) ==
    {q \in Procs \ {p} :
        /\ rl[q].pc = "pipeline" /\ rl[q].key = rl[p].key
        /\ rl[q].limit = rl[p].limit
        /\ ZCard(pruned) = rl[p].limit - 1
        /\ \A e \in pruned : e.score > WindowStart(rl[q])}

\* The members that rejected attempts in flight on key k have created and
\* not yet removed.
Transient(p, k) ==
    {Str(rl[q].ct) : q \in {r \in Procs \ {p} :
        rl[r].pc = "zrem" /\ rl[r].key = k /\ rl[r].created}}

\* ------------------------------------------------- the middleware frames
\* pc is the await the middleware is suspended at.  outcome is what the
\* request ended with: "passed" (the handler was called), "rate_limited",
\* "blocked" (by a block record found) or "blocked_now" (by the block record
\* this request wrote).  The other fields are history: blockLive says that
\* a block record existed when the block check ran, touched is the set of
\* window keys a store command of this request was run on, pAllowed, pReset
\* and sAllowed are the results of the primary and the spam check, retry is
\* the number of seconds the rate limited answer names, wrote says that the
\* request wrote the block record, id numbers the request.
MwIdle ==
    [pc |-> "idle", outcome |-> "none", blockLive |-> FALSE, touched |-> {},
     pAllowed |-> TRUE, pReset |-> 0, sAllowed |-> TRUE, retry |-> 0,
     wrote |-> FALSE, handler |-> FALSE, id |-> 0]

\* Mutant of Exists: the block record is never found.
ExistsNever(b) == FALSE

\* EXISTS key, for the block record.
Exists(b) == b # NoTTL

\* The primary check that the middleware makes, lines 99-104.
PrimaryFrame(p) == CheckFrame(p, "user", conf.limit, conf.window)

\* The spam check, lines 113-118.
SpamFrame(p) == CheckFrame(p, "spam", conf.spam_limit, conf.spam_window)

\* Mutant of AfterPrimary: the spam check is made for allowed requests too.
AfterPrimarySpamAlways(p, f) ==
    /\ mw' = [mw EXCEPT ![p] = [@ EXCEPT !.pc = "spam", !.pAllowed = f.allowed,
                  !.pReset = f.reset, !.touched = @ \cup {f.key}]]
    /\ rl' = Enter(p, SpamFrame(p))
    /\ last' = [last EXCEPT !["spam"] = now]

\* What the middleware does when its primary check returns (lines 106-165):
\* the handler is called, or the spam check starts.  The frame of the call
\* that has returned is gone.
AfterPrimary(p, f) ==
    IF f.allowed
    THEN /\ mw' = [mw EXCEPT ![p] = [@ EXCEPT !.pc = "done", !.outcome = "passed",
                       !.handler = TRUE, !.pAllowed = TRUE, !.pReset = f.reset,
                       !.touched = @ \cup {f.key}]]
         /\ rl' = [rl EXCEPT ![p] = IdleFrame]
         /\ UNCHANGED last
    ELSE /\ mw' = [mw EXCEPT ![p] = [@ EXCEPT !.pc = "spam", !.pAllowed = FALSE,
                       !.pReset = f.reset, !.touched = @ \cup {f.key}]]
         /\ rl' = Enter(p, SpamFrame(p))
         /\ last' = [last EXCEPT !["spam"] = now]

\* Mutant of SpamAllowed: the spam check's verdict is read the wrong way
\* round.
SpamAllowedInverted(f) == ~f.allowed

\* `if not spam_allowed`, line 120, on the tuple the spam check returned.
SpamAllowed(f) == f.allowed

\* What the middleware does when its spam check returns (lines 120-156):
\* the block is written next, or the request is rejected as rate limited
\* with the reset_time of the primary check.
AfterSpam(p, f) ==
    /\ rl' = [rl EXCEPT ![p] = IdleFrame]
    /\ UNCHANGED last
    /\ IF SpamAllowed(f)
       THEN mw' = [mw EXCEPT ![p] = [@ EXCEPT !.pc = "done", !.outcome = "rate_limited",
                       !.sAllowed = f.allowed, !.retry = mw[p].pReset,
                       !.touched = @ \cup {f.key}]]
       ELSE mw' = [mw EXCEPT ![p] = [@ EXCEPT !.pc = "setex", !.sAllowed = f.allowed,
                       !.touched = @ \cup {f.key}]]

\* Coroutine p's rate limiter call moves to frame f: when the call has
\* returned, its caller runs on to its next await.
Deliver(p, f) ==
    IF mw[p].pc = "primary" /\ f.pc = "done" THEN AfterPrimary(p, f)
    ELSE IF mw[p].pc = "spam" /\ f.pc = "done" THEN AfterSpam(p, f)
    ELSE /\ rl' = [rl EXCEPT ![p] = f]
         /\ mw' = [mw EXCEPT ![p].touched =
                      IF mw[p].pc \in {"primary", "spam"} THEN @ \cup {f.key} ELSE @]
         /\ UNCHANGED last

\* The allowed call, or the increment, of timestamp t on key k is recorded.
Admit(k, t) == [admitted EXCEPT ![k][t] = @ + 1]

\* ------------------------------------------- RedisRateLimiter, the steps
\* allowed = current_count < limit
Allowed(count, limit) == count < limit

\* Mutant of Pruned: the entry that is exactly `window` old is kept.
PrunedStrict(z, f) == ZRemRangeByScore(z, 0, WindowStart(f) - 1)

\* pipe.zremrangebyscore(redis_key, 0, window_start)
Pruned(z, f) == ZRemRangeByScore(z, 0, WindowStart(f))

\* Mutant of RollbackMember: the roll back names a member that no call
\* inserted.
RollbackMemberOther(f) == Str(-1)

\* The member that the roll back of a rejected attempt removes.
RollbackMember(f) == Str(f.ct)

\* reset_time = int(window - (current_time - oldest_time)) when the set has
\* an oldest entry, window otherwise.
ResetTime(f, oldest) ==
    IF oldest # <<>>
    THEN IntTrunc(f.window * TicksPerSec - (f.ct - oldest[1].score))
    ELSE f.window

\* `results = await pipe.execute()`: ZREMRANGEBYSCORE, ZCARD, ZADD and EXPIRE
\* run as one MULTI/EXEC transaction (redis-py pipelines are transactional
\* unless asked otherwise); then lines 77-81, and the return of an allowed
\* call.
Pipeline(p) ==
    /\ rl[p].pc = "pipeline"
    /\ LET f == rl[p]
           k == f.key
           pruned == Pruned(zs[k], f)
           count == ZCard(pruned)
           added == ZAdd(pruned, Str(f.ct), f.ct)
           allowed == Allowed(count, f.limit)
           g == [f EXCEPT !.count = count, !.allowed = allowed,
                          !.created = (ZCard(added) > count),
                          !.genuine = Cardinality({e \in pruned : e.member \notin Transient(p, k)}),
                          !.rival = IF Rivals(p, pruned) = {} THEN 0
                                    ELSE rl[CHOOSE q \in Rivals(p, pruned) : TRUE].id,
                          !.pc = IF allowed THEN "done" ELSE "zrem"]
       IN /\ zs' = [zs EXCEPT ![k] = added]
          /\ ttl' = [ttl EXCEPT ![k] = ExpireAt(f.window + 1)]
          /\ admitted' = IF allowed THEN Admit(k, f.ct) ELSE admitted
          /\ Deliver(p, g)
    /\ UNCHANGED <<now, conf, block, left, horizon, acVars, whVars, pipeVars>>

\* `await self.redis.zrem(redis_key, str(current_time))`, line 85.
Zrem(p) ==
    /\ rl[p].pc = "zrem"
    /\ LET f == rl[p]
           k == f.key
           z == ZRem(zs[k], RollbackMember(f))
       IN /\ zs' = [zs EXCEPT ![k] = z]
          /\ ttl' = [ttl EXCEPT ![k] = TtlAfter(z, @)]
          /\ Deliver(p, [f EXCEPT !.pc = "zrange"])
    /\ UNCHANGED <<now, conf, block, left, horizon, admitted, acVars, whVars, pipeVars>>

\* `await self.redis.zrange(redis_key, 0, 0, withscores=True)`, lines 88-98.
Zrange(p) ==
    /\ rl[p].pc = "zrange"
    /\ LET f == rl[p]
           oldest_request == ZRangeFirst(zs[f.key])
       IN Deliver(p, [f EXCEPT !.reset = ResetTime(f, oldest_request), !.pc = "done"])
    /\ UNCHANGED <<now, zs, ttl, conf, block, left, horizon, admitted, acVars, whVars, pipeVars>>

\* increment, lines 120-126: ZADD, EXPIRE and ZCARD in one transaction.
IncrPipeline(p) ==
    /\ rl[p].pc = "incr"
    /\ LET f == rl[p]
           k == f.key
           added == ZAdd(zs[k], Str(f.ct), f.ct)
       IN /\ zs' = [zs EXCEPT ![k] = added]
          /\ ttl' = [ttl EXCEPT ![k] = ExpireAt(f.window + 1)]
          /\ admitted' = Admit(k, f.ct)
          /\ Deliver(p, [f EXCEPT !.count = ZCard(added), !.pc = "done"])
    /\ UNCHANGED <<now, conf, block, left, horizon, acVars, whVars, pipeVars>>

\* get_remaining, line 171: `await self.redis.zremrangebyscore(...)`.
RemainingPrune(p) ==
    /\ rl[p].pc = "prune"
    /\ LET f == rl[p]
           k == f.key
           z == Pruned(zs[k], f)
       IN /\ zs' = [zs EXCEPT ![k] = z]
          /\ ttl' = [ttl EXCEPT ![k] = TtlAfter(z, @)]
          /\ Deliver(p, [f EXCEPT !.pc = "zcard"])
    /\ UNCHANGED <<now, conf, block, left, horizon, admitted, acVars, whVars, pipeVars>>

\* remaining = max(0, limit - current_count)
Remaining(limit, count) == IF limit - count > 0 THEN limit - count ELSE 0

\* get_remaining, lines 174-177: `await self.redis.zcard(redis_key)`; the
\* frame's count field carries the returned value.
RemainingCard(p) ==
    /\ rl[p].pc = "zcard"
    /\ LET f == rl[p]
       IN Deliver(p, [f EXCEPT !.count = Remaining(f.limit, ZCard(zs[f.key])), !.pc = "done"])
    /\ UNCHANGED <<now, zs, ttl, conf, block, left, horizon, admitted, acVars, whVars, pipeVars>>

\* ---------------------------------------------------- the callers' calls
KeyLimit(k) == IF k = "user" THEN conf.limit ELSE conf.spam_limit
KeyWindow(k) == IF k = "user" THEN conf.window ELSE conf.spam_window

CanCall(p) == left > 0 /\ ~InFlight(p) /\ mw[p].pc = "idle"

\* A caller calls check_rate_limit(key, limit, window).
CallCheck(p, k) ==
    /\ CanCall(p)
    /\ rl' = Enter(p, CheckFrame(p, k, KeyLimit(k), KeyWindow(k)))
    /\ last' = [last EXCEPT ![k] = now]
    /\ left' = left - 1
    /\ UNCHANGED <<now, zs, ttl, conf, block, mw, horizon, admitted, acVars, whVars, pipeVars>>

\* A caller calls increment(key, window).
CallIncrement(p, k) ==
    /\ CanCall(p)
    /\ rl' = Enter(p, IncrFrame(p, k, KeyWindow(k)))
    /\ last' = [last EXCEPT ![k] = now]
    /\ left' = left - 1
    /\ UNCHANGED <<now, zs, ttl, conf, block, mw, horizon, admitted, acVars, whVars, pipeVars>>

\* A caller calls get_remaining(key, limit, window).
CallRemaining(p, k) ==
    /\ CanCall(p)
    /\ rl' = Enter(p, RemainingFrame(p, k, KeyLimit(k), KeyWindow(k)))
    /\ left' = left - 1
    /\ UNCHANGED <<now, zs, ttl, conf, block, mw, horizon, last, admitted, acVars, whVars, pipeVars>>

\* ------------------------------------------------------------- the clock
\* The clock advances by one tick, no call being overdue; the store drops
\* the keys whose TTL has run out.
\* Mutant of Expired: a key with a TTL is dropped at the next tick.
ExpiredAlways(t, at) == t # NoTTL

\* A key whose TTL runs out at tick t has expired at tick `at`.
Expired(t, at) == t # NoTTL /\ t <= at

Tick ==
    /\ now < horizon
    /\ \A p \in Procs : InFlight(p) => now - rl[p].ct < MaxLatency
    /\ now' = now + 1
    /\ zs' = [k \in ZKeys |-> IF Expired(ttl[k], now') THEN {} ELSE zs[k]]
    /\ ttl' = [k \in ZKeys |-> IF Expired(ttl[k], now') THEN NoTTL ELSE ttl[k]]
    /\ block' = IF Expired(block, now') THEN NoTTL ELSE block
    /\ UNCHANGED <<conf, rl, mw, left, horizon, last, admitted, acVars, whVars, pipeVars>>

\* ---------------------------------------------- access control: the data
\* class Role
Roles == {"user", "moderator", "admin", "super_admin"}

\* class Permission
Permission ==
    {"read", "write", "delete", "manage_users", "ban_users", "view_user_data",
     "manage_subscriptions", "grant_subscription", "view_payments",
     "manage_payments", "refund_payments", "create_promo", "manage_promo",
     "manage_ads", "view_logs", "manage_settings", "access_admin_panel",
     "send_broadcast", "view_statistics", "export_data"}

\* The literal that ROLE_PERMISSIONS is bound to when the module is loaded.
RolePermissionsLiteral ==
    [r \in Roles |->
        CASE r = "user" -> {"read"}
          [] r = "moderator" ->
                {"read", "write", "view_user_data", "view_payments",
                 "view_statistics", "manage_ads"}
          [] r = "admin" ->
                {"read", "write", "delete", "manage_users", "ban_users",
                 "view_user_data", "manage_subscriptions", "grant_subscription",
                 "view_payments", "manage_payments", "create_promo",
                 "manage_promo", "manage_ads", "view_logs",
                 "access_admin_panel", "send_broadcast", "view_statistics"}
          [] r = "super_admin" -> Permission]

\* The principal ids and the permissions that the calls are made with.
Users == {0, 1}
AskedPermissions == {"read", "view_payments", "manage_users"}

\* What the role column of a principal's row may hold: a role's value, the
\* empty string or a string that is no role's value; "none": there is no row.
DbValues == Roles \cup {"", "root", "none"}

\* The identity stores that are explored.
Dbs ==
    {d \in [Users -> DbValues] :
        \/ d[0] = "moderator"
        \/ d[0] = "user" /\ d[1] \in {"user", "admin"}}

\* The roles that has_role is asked about.
AskedRoles == {"user", "admin"}

\* A cache entry.  kind "none": the id is not in the dict.  kind "role": the
\* value is the very set object that ROLE_PERMISSIONS holds for `role`.
\* kind "own": the value is a set object of the entry's own, `perms`.
NoEntry == [kind |-> "none", role |-> "user", perms |-> {}]
RoleEntry(r) == [kind |-> "role", role |-> r, perms |-> {}]
OwnEntry(S) == [kind |-> "own", role |-> "user", perms |-> S]

\* Mutant of Cached: no principal is found in the cache.
CachedNever(u) == FALSE

\* user_id in self._cache
Cached(u) == cache[u].kind # "none"

\* self._cache[user_id], as a value
CachePerms(u) ==
    IF cache[u].kind = "role" THEN ROLE_PERMISSIONS[cache[u].role] ELSE cache[u].perms

\* The latest ad-hoc change that concerns a principal.
NoWrite == [kind |-> "none", perm |-> "read"]

\* A frame of a PermissionChecker call.  pc "lookup": suspended at
\* `await self.db_session.execute(...)`.  arg is clear_cache's argument, <<>>
\* for None.  result and perms are what the call returned.  fault and after
\* are history: the lookup raised or found no known role; written[user] when
\* the call returned.
AcFrame(pc, op, u, perm, role, use_cache, arg) ==
    [pc |-> pc, op |-> op, user |-> u, perm |-> perm, role |-> role,
     use_cache |-> use_cache, arg |-> arg, result |-> FALSE, perms |-> {},
     fault |-> FALSE, after |-> NoWrite]

AcIdle ==
    [pc |-> "idle", op |-> "none", user |-> 0, perm |-> "read", role |-> "user",
     use_cache |-> TRUE, arg |-> <<>>, result |-> FALSE, perms |-> {},
     fault |-> FALSE, after |-> NoWrite]

\* The registry before its first call.
CheckerIdle ==
    /\ ROLE_PERMISSIONS = RolePermissionsLiteral
    /\ cache = [u \in Users |-> NoEntry]
    /\ db = [u \in Users |-> "none"]
    /\ session = FALSE
    /\ ac = [p \in Procs |-> AcIdle]
    /\ written = [u \in Users |-> NoWrite]

\* --------------------------------------------- webhook validator: the data
\* The providers that validate() dispatches on.
Providers == {"yookassa", "cryptopay", "freekassa", "tribute", "stars", "panel"}

\* The provider ids that the calls are made with.
ProviderIds == Providers \cup {"YooKassa", "paypal"}

\* provider.lower()
Lower(id) == IF id = "YooKassa" THEN "yookassa" ELSE id

\* self.replay_window
replay_window == 300

\* A payload is the parsed JSON body.  A key that the body does not hold has
\* the value "absent"; `object` is the object's id, "noid" for an object
\* without id, "null" for JSON null; timestamp is an int, a string or absent.
NoTimestamp == [kind |-> "absent", value |-> 0]
Timestamps ==
    {NoTimestamp, [kind |-> "str", value |-> 0]}
        \cup {[kind |-> "int", value |-> v] : v \in {0, 1, 2 * replay_window + 2}}

Payloads ==
    [event : {"payment.succeeded", "absent"}, object : {"o1", "null", "noid"},
     MERCHANT_ID : {"m1", "absent"}, AMOUNT : {"100"}, MERCHANT_ORDER_ID : {"7"},
     timestamp : Timestamps]

EmptyPayload ==
    [event |-> "absent", object |-> "noid", MERCHANT_ID |-> "absent", AMOUNT |-> "100",
     MERCHANT_ORDER_ID |-> "7", timestamp |-> NoTimestamp]

\* `not value` for what payload.get(key) returns.
Falsy(value) == value \in {"absent", ""}

\* The readings of time.time(), in ticks.
Clocks == {replay_window * TicksPerSec + d : d \in 0..4}

\* A digest: the algorithm, the key and the message it was computed with.
\* "text" is a plain string, msg[1].
Digest(alg, key, msg) == [alg |-> alg, key |-> key, msg |-> msg]
Text(str) == Digest("text", "", <<str>>)

\* A signature string: the lower case hex rendering of a digest ("exact"),
\* the same with one letter in upper case ("upper"), or with one byte
\* replaced by another hex digit ("altered").
Forms == {"exact", "upper", "altered"}
Sig(digest, form) == [digest |-> digest, form |-> form]

\* str.lower() of a signature string
StrLower(sig) == IF sig.form = "upper" THEN [sig EXCEPT !.form = "exact"] ELSE sig

\* hmac.compare_digest(a, b)
CompareDigest(a, b) == a = b

\* One "key:value" item of the JSON text, nothing for a key not in the body.
JsonItem(key, value) == IF value = "absent" THEN <<>> ELSE <<key, value>>

\* json.dumps(payload, separators=(',', ':'), sort_keys=True)
JsonDumps(payload) ==
    JsonItem("AMOUNT", payload.AMOUNT)
        \o JsonItem("MERCHANT_ID", payload.MERCHANT_ID)
        \o JsonItem("MERCHANT_ORDER_ID", payload.MERCHANT_ORDER_ID)
        \o JsonItem("event", payload.event)
        \o JsonItem("object", payload.object)
        \o (CASE payload.timestamp.kind = "absent" -> <<>>
              [] payload.timestamp.kind = "int" ->
                    <<"timestamp", ToString(payload.timestamp.value)>>
              [] payload.timestamp.kind = "str" ->
                    <<"timestamp", "\"" \o ToString(payload.timestamp.value) \o "\"">>)

\* payload.get('object', {}).get('id') where that is defined.
ObjectId(payload) == IF payload.object = "noid" THEN "absent" ELSE payload.object

\* The signature that each provider's scheme yields for a payload under a
\* secret (lines 77-82, 117-123, 172-173, 208-214, 249, 282-288).
ExpectedSignature(provider, secret, payload) ==
    CASE provider = "yookassa" ->
            Sig(Digest("hmac_sha256", secret,
                       <<payload.event, "&", ObjectId(payload), "&", secret>>), "exact")
      [] provider \in {"cryptopay", "tribute", "panel"} ->
            Sig(Digest("hmac_sha256", secret, JsonDumps(payload)), "exact")
      [] provider = "freekassa" ->
            Sig(Digest("md5", "",
                       <<payload.MERCHANT_ID, ":", payload.AMOUNT, ":", secret, ":",
                         payload.MERCHANT_ORDER_ID>>), "exact")
      [] OTHER -> Sig(Text(secret), "exact")

\* The secrets that the validator is built with: "" is what
\* SecurityManager passes for a variable that is not set.
SecretSets ==
    {[pr \in Providers |-> IF pr \in S THEN "k1" ELSE unset] :
        S \in {Providers, {}, {"yookassa", "cryptopay", "stars"},
               {"freekassa", "tribute", "panel"}},
        unset \in {"", "none"}}

\* The signatures that are presented with provider id `id` and a payload.
SigChoices(id, payload) ==
    {[ExpectedSignature(Lower(id), key, payload) EXCEPT !.form = form] :
        key \in {"k1", "k2"}, form \in Forms}
    \cup {Sig(Text(""), "exact"), Sig(Text("k1"), "exact")}

\* ------------------------------------------------- IP whitelist: the data
\* The text of an address: its groups, written in decimal and joined by "."
\* or in hexadecimal and joined by ":".  NoneText is None, EmptyText is "",
\* and a text with another separator is no address at all.
NoneText == [sep |-> "none", groups |-> <<>>]
EmptyText == [sep |-> "", groups |-> <<>>]
V4Text(a, b, c, d) == [sep |-> ".", groups |-> <<a, b, c, d>>]
V6Text(groups) == [sep |-> ":", groups |-> groups]

\* The text of a network: an address text and, after "/", a prefix length;
\* NoPrefix for a text without "/".
NoPrefix == -1
NetText(text, prefix) == [sep |-> text.sep, groups |-> text.groups, prefix |-> prefix]

\* What ipaddress yields for a text that it raises ValueError for.
Invalid == [version |-> 0, groups |-> <<>>, prefix |-> 0]

GroupWidth(version) == IF version = 4 THEN 8 ELSE 16
MaxPrefix(version) == IF version = 4 THEN 32 ELSE 128

\* ipaddress.ip_address(text): four groups of 8 bits or eight groups of 16.
ParseAddress(text) ==
    CASE text.sep = "." /\ Len(text.groups) = 4
            /\ (\A i \in 1..4 : text.groups[i] \in 0..255) ->
            [version |-> 4, groups |-> text.groups, prefix |-> MaxPrefix(4)]
      [] text.sep = ":" /\ Len(text.groups) = 8
            /\ (\A i \in 1..8 : text.groups[i] \in 0..65535) ->
            [version |-> 6, groups |-> text.groups, prefix |-> MaxPrefix(6)]
      [] OTHER -> Invalid

\* The number of bits of group i that a prefix covers.
KeptBits(version, prefix, i) ==
    LET w == GroupWidth(version)
        over == prefix - w * (i - 1)
    IN IF over < 0 THEN 0 ELSE IF over > w THEN w ELSE over

\* Mutant of MaskGroup: the mask keeps every bit.
MaskGroupNone(version, prefix, i, group) == group

\* group & netmask, for group i of an address.
MaskGroup(version, prefix, i, group) ==
    LET free == 2 ^ (GroupWidth(version) - KeptBits(version, prefix, i))
    IN (group \div free) * free

\* ipaddress.ip_network(text, strict=False): the host bits are masked out.
ParseNetwork(text) ==
    LET address == ParseAddress([sep |-> text.sep, groups |-> text.groups])
        prefix == IF text.prefix = NoPrefix THEN address.prefix ELSE text.prefix
    IN IF address = Invalid \/ ~(prefix \in 0..MaxPrefix(address.version)) THEN Invalid
       ELSE [version |-> address.version,
             groups |-> [i \in DOMAIN address.groups |->
                            MaskGroup(address.version, prefix, i, address.groups[i])],
             prefix |-> prefix]

\* `ip in network`: the versions agree and the masked address is the
\* network's address.
Contains(network, ip) ==
    /\ network.version = ip.version
    /\ \A i \in DOMAIN ip.groups :
          MaskGroup(ip.version, network.prefix, i, ip.groups[i]) = network.groups[i]

\* _parse_ip_list: the networks of the texts that parse.
ParseIpList(ip_list) == {ParseNetwork(text) : text \in ip_list} \ {Invalid}

Loopback6 == V6Text(<<0, 0, 0, 0, 0, 0, 0, 1>>)
Unspecified6 == V6Text(<<0, 0, 0, 0, 0, 0, 0, 0>>)

DEFAULT_WHITELISTS ==
    [yookassa |->
        {NetText(V4Text(185, 71, 76, 0), 27), NetText(V4Text(185, 71, 77, 0), 27),
         NetText(V4Text(77, 75, 153, 0), 25), NetText(V4Text(77, 75, 156, 11), NoPrefix),
         NetText(V4Text(77, 75, 156, 35), NoPrefix),
         NetText(V4Text(77, 75, 154, 128), 25)},
     cryptopay |-> {NetText(V4Text(0, 0, 0, 0), 0)},
     freekassa |->
        {NetText(V4Text(168, 119, 157, 136), NoPrefix),
         NetText(V4Text(168, 119, 60, 227), NoPrefix),
         NetText(V4Text(138, 201, 88, 124), NoPrefix),
         NetText(V4Text(178, 154, 197, 79), NoPrefix)},
     tribute |-> {NetText(V4Text(0, 0, 0, 0), 0)},
     stars |-> {NetText(V4Text(149, 154, 160, 0), 20), NetText(V4Text(91, 108, 4, 0), 22)},
     panel |-> {NetText(V4Text(127, 0, 0, 1), NoPrefix), NetText(Loopback6, NoPrefix)}]

\* IPWhitelist(): every default list parsed.
DefaultWhitelists == [pr \in DOMAIN DEFAULT_WHITELISTS |-> ParseIpList(DEFAULT_WHITELISTS[pr])]

\* is_allowed(provider, ip_address) on whitelists w.
IsAllowed(w, provider, text) ==
    IF ~(provider \in DOMAIN w) THEN FALSE
    ELSE LET ip == ParseAddress(text)
         IN IF ip = Invalid THEN FALSE
            ELSE \E network \in w[provider] : Contains(network, ip)

\* What the decorator reads of a request and of the application: whether the
\* application holds a validator and a whitelist, the decorator's check_ip,
\* the X-Forwarded-For header (its hops) if there is one, request.remote,
\* whether the signature header is there, whether the body parses as JSON.
NoRequest ==
    [has_validator |-> TRUE, has_whitelist |-> TRUE, check_ip |-> TRUE,
     has_forwarded |-> FALSE, forwarded |-> <<>>, remote |-> NoneText,
     has_signature |-> FALSE, json |-> TRUE]

\* The frame of a webhook call.  op is the function called, pc "call" before
\* it has run and "done" after; result and raised are what it returned or
\* that it raised.  address is the address text of an is_allowed, add_ip or
\* remove_ip call.  status and text are the response of a decorated handler
\* and handler counts the calls of the wrapped function.
WhIdle ==
    [pc |-> "idle", op |-> "none", provider |-> "paypal", payload |-> EmptyPayload,
     signature |-> Sig(Text(""), "exact"), clock |-> 0, result |-> FALSE,
     raised |-> FALSE, address |-> NetText(NoneText, NoPrefix), request |-> NoRequest,
     status |-> 0, text |-> "", handler |-> 0]

\* The frame of validate(id, payload, sig) called at clock reading `clock`.
ValidateFrame(id, payload, sig, clock) ==
    [WhIdle EXCEPT !.pc = "call", !.op = "validate", !.provider = id,
                   !.payload = payload, !.signature = sig, !.clock = clock]

\* The validator before it is built.
WebhookIdle ==
    /\ secrets = [pr \in Providers |-> ""]
    /\ whitelists = DefaultWhitelists
    /\ wh = WhIdle

\* ------------------------------------- the governed request: the data
\* The ids that event.from_user.id takes; 0 is an id that `not user_id`
\* takes for no id.
UserIds == {0, 1, 2}

\* f"{kind}:{user_id}": the keys of the middleware and of the decorators,
\* rate_limiter._get_key putting the same prefix before each.
KeyKinds == {"blocked", "user", "spam", "activity"}
Keys == [kind : KeyKinds, id : UserIds]
Key(kind, id) == [kind |-> kind, id |-> id]

\* The hash that _log_activity stores: type, len(data) and timestamp.
NoHash == [type |-> "none", data |-> 0, timestamp |-> 0]

\* What the store holds at a key: nothing, a sorted set (entries, each with
\* its score; `by` is history and names the limiter whose ZADD made it), a
\* string or a hash; ttl is the tick of expiry, NoTTL for a key without one.
NoValue == [kind |-> "none", entries |-> {}, hash |-> NoHash, ttl |-> NoTTL]

\* A text of an event: None, or a string of a length.
NoText == [some |-> FALSE, len |-> 0]
TextOf(len) == [some |-> TRUE, len |-> len]

\* An event: a Message with its text or a CallbackQuery with its data, the
\* id of its sender and its date.
NoEvent == [kind |-> "message", user |-> 0, text |-> NoText, date |-> 0]

\* How the handler that the middleware forwards to is decorated, and what
\* its decorator is given: whether data holds a permission_checker, what
\* the checker's has_permission or has_role answers, and the limit and
\* window of rate_limit_user.
NoDeco == [kind |-> "none", checker |-> FALSE, granted |-> FALSE, limit |-> 1, window |-> 1]

\* The frame of a governed request.  pc is the await the middleware, or the
\* decorator of the handler, is suspended at.  outcome, handler and raised
\* say how the request ended: the handler function ran, an exception left
\* the middleware.  The other fields are history: checks counts the
\* check_rate_limit calls made for the request, allowed and reset are what
\* the primary check returned, count is what the decorator's check returned,
\* tagged is the number of entries of the decorator's window that the
\* decorator's own earlier calls had made, failed says that a store call
\* made for the request raised, skipped that no check was made at all.
ReqIdle ==
    [pc |-> "idle", id |-> 0, event |-> NoEvent, deco |-> NoDeco, outcome |-> "none",
     handler |-> FALSE, raised |-> FALSE, checks |-> 0, allowed |-> TRUE, reset |-> 0,
     count |-> 0, tagged |-> 0, failed |-> FALSE, skipped |-> FALSE]

\* ------------------------------------------------ the rate limiter alone
Confs ==
    [limit : 1..MaxLimit, window : 1..MaxWindow,
     spam_limit : {MaxLimit}, spam_window : {MaxWindow}, block_duration : {1}]

InitStore ==
    /\ now = 0
    /\ zs = [k \in ZKeys |-> {}]
    /\ ttl = [k \in ZKeys |-> NoTTL]
    /\ block = NoTTL
    /\ rl = [p \in Procs |-> IdleFrame]
    /\ mw = [p \in Procs |-> MwIdle]
    /\ last = [k \in ZKeys \cup {"blocked"} |-> -1]
    /\ admitted = [k \in ZKeys |-> [t \in Time |-> 0]]
    /\ redis = [k \in Keys |-> NoValue]
    /\ greq = [c \in Procs |-> ReqIdle]

Init ==
    /\ horizon = MaxTime
    /\ InitStore
    /\ CheckerIdle
    /\ WebhookIdle
    /\ conf \in Confs
    /\ left = MaxCalls

LimiterStep(p) ==
    \/ Pipeline(p)
    \/ Zrem(p)
    \/ Zrange(p)

Next ==
    \/ Tick
    \/ \E p \in Procs : CallCheck(p, "user")
    \/ \E p \in Procs : CallRemaining(p, "user")
    \/ \E p \in Procs : LimiterStep(p)
    \/ \E p \in Procs : RemainingPrune(p)
    \/ \E p \in Procs : RemainingCard(p)

Spec == Init /\ [][Next]_vars

\* ------------------------------------------------- a store that can fail
\* Mutant of FailOpen: the failed call rejects.
FailClosed(f) ==
    [f EXCEPT !.pc = "done", !.allowed = FALSE, !.count = 0, !.reset = f.window,
              !.fault = TRUE]

\* `except Exception` of check_rate_limit, lines 100-103: the error is logged
\* and the call returns (True, 0, window).
FailOpen(f) ==
    [f EXCEPT !.pc = "done", !.allowed = TRUE, !.count = 0, !.reset = f.window,
              !.fault = TRUE]

\* `await pipe.execute()` raises: the connection failed before the
\* transaction ran, or after it ran and before its reply arrived.
PipelineFault(p) ==
    /\ rl[p].pc = "pipeline"
    /\ LET f == rl[p]
           k == f.key
       IN /\ \/ UNCHANGED <<zs, ttl>>
             \/ /\ zs' = [zs EXCEPT ![k] = ZAdd(Pruned(zs[k], f), Str(f.ct), f.ct)]
                /\ ttl' = [ttl EXCEPT ![k] = ExpireAt(f.window + 1)]
          /\ Deliver(p, FailOpen(f))
    /\ UNCHANGED <<now, conf, block, left, horizon, admitted, acVars, whVars, pipeVars>>

\* `await self.redis.zrem(...)` raises, the member removed or not.
ZremFault(p) ==
    /\ rl[p].pc = "zrem"
    /\ LET f == rl[p]
           k == f.key
           z == ZRem(zs[k], RollbackMember(f))
       IN /\ \/ UNCHANGED <<zs, ttl>>
             \/ /\ zs' = [zs EXCEPT ![k] = z]
                /\ ttl' = [ttl EXCEPT ![k] = TtlAfter(z, @)]
          /\ Deliver(p, FailOpen(f))
    /\ UNCHANGED <<now, conf, block, left, horizon, admitted, acVars, whVars, pipeVars>>

\* `await self.redis.zrange(...)` raises.
ZrangeFault(p) ==
    /\ rl[p].pc = "zrange"
    /\ Deliver(p, FailOpen(rl[p]))
    /\ UNCHANGED <<now, zs, ttl, conf, block, left, horizon, admitted, acVars, whVars, pipeVars>>

LimiterFault(p) ==
    \/ PipelineFault(p)
    \/ ZremFault(p)
    \/ ZrangeFault(p)

NextFault ==
    \/ Tick
    \/ \E p \in Procs : CallCheck(p, "user")
    \/ \E p \in Procs : LimiterStep(p)
    \/ \E p \in Procs : LimiterFault(p)

SpecFault == Init /\ [][NextFault]_vars

\* -------------------------------------------- RateLimitMiddleware.__call__
\* A request of the principal arrives (lines 67-96): the middleware awaits
\* EXISTS on the block record; a blocked principal is answered and the
\* request ends, otherwise the primary check is called (lines 99-104) and the
\* coroutine is suspended at its pipeline.
MwRequest(p) ==
    /\ left > 0
    /\ ~InFlight(p)
    /\ mw[p].pc \in {"idle", "done"}
    /\ left' = left - 1
    /\ IF Exists(block)
       THEN /\ mw' = [mw EXCEPT ![p] = [MwIdle EXCEPT !.pc = "done", !.id = left,
                          !.outcome = "blocked", !.blockLive = (block # NoTTL)]]
            /\ UNCHANGED <<rl, last>>
       ELSE /\ mw' = [mw EXCEPT ![p] = [MwIdle EXCEPT !.pc = "primary", !.id = left,
                          !.blockLive = (block # NoTTL)]]
            /\ rl' = Enter(p, PrimaryFrame(p))
            /\ last' = [last EXCEPT !["user"] = now]
    /\ UNCHANGED <<now, zs, ttl, conf, block, horizon, admitted, acVars, whVars, pipeVars>>

\* _block_user (lines 174-181), `await self.rate_limiter.redis.setex(...)`,
\* then the answer of lines 129-141.
MwSetex(p) ==
    /\ mw[p].pc = "setex"
    /\ block' = ExpireAt(conf.block_duration)
    /\ mw' = [mw EXCEPT ![p] = [@ EXCEPT !.pc = "done", !.outcome = "blocked_now",
                  !.wrote = TRUE]]
    /\ last' = [last EXCEPT !["blocked"] = now]
    /\ UNCHANGED <<now, zs, ttl, conf, rl, left, horizon, admitted, acVars, whVars, pipeVars>>

\* unblock_user (lines 295-303): DEL on the block record.
UnblockUser ==
    /\ block # NoTTL
    /\ block' = NoTTL
    /\ UNCHANGED <<now, zs, ttl, conf, rl, mw, left, horizon, last, admitted, acVars, whVars, pipeVars>>

\* The configurations of the middleware that are explored: the spam window
\* is the wider one.
MwConfs ==
    {[limit |-> 1, window |-> 1, spam_limit |-> 1, spam_window |-> 2, block_duration |-> 1],
     [limit |-> 1, window |-> 1, spam_limit |-> 2, spam_window |-> 2, block_duration |-> 2],
     [limit |-> 2, window |-> 1, spam_limit |-> 1, spam_window |-> 2, block_duration |-> 1]}

InitMw ==
    /\ horizon = MaxTime
    /\ InitStore
    /\ CheckerIdle
    /\ WebhookIdle
    /\ conf \in MwConfs
    /\ left = MaxRequests

NextMw ==
    \/ Tick
    \/ UnblockUser
    \/ \E p \in Procs : MwRequest(p)
    \/ \E p \in Procs : LimiterStep(p)
    \/ \E p \in Procs : MwSetex(p)

SpecMw == InitMw /\ [][NextMw]_vars

\* -------------------------------------------- the spam escalation scenario
\* One principal sends its requests one after the other to a middleware
\* configured with a primary limit of 5 per 60 s and a spam limit of 7 per
\* 3600 s (block_duration as security_manager.py sets it).
ScenarioConf ==
    [limit |-> 5, window |-> 60, spam_limit |-> 7, spam_window |-> 3600,
     block_duration |-> 3600]

InitScenario ==
    /\ horizon = ScenarioTime
    /\ InitStore
    /\ CheckerIdle
    /\ WebhookIdle
    /\ conf = ScenarioConf
    /\ left = ScenarioRequests

\* The requests come in rapid succession: the clock advances at most one
\* tick from one request to the next.
ScenarioTick ==
    /\ last["user"] = now
    /\ Tick

NextScenario ==
    \/ ScenarioTick
    \/ MwRequest(1)
    \/ LimiterStep(1)
    \/ MwSetex(1)

SpecScenario == InitScenario /\ [][NextScenario]_vars

\* ------------------------------------------ PermissionChecker, the calls
\* Role(role_str): the member of that value, or ValueError.
RoleOfValue(row) == [ok |-> row \in Roles, role |-> row]

\* What `await self.db_session.execute(...)` and scalar_one_or_none() end
\* with for principal u: the row's role column, None, or an exception.
LookupOutcomes(u) == {[raised |-> TRUE, row |-> "none"], [raised |-> FALSE, row |-> db[u]]}

\* _get_user_role, lines 306-321, on the outcome of the lookup.
GetUserRole(o) ==
    IF o.raised THEN "user"
    ELSE IF o.row \in {"none", ""} THEN "user"
    ELSE IF RoleOfValue(o.row).ok THEN RoleOfValue(o.row).role
    ELSE "user"

\* The lookup raised, found no row, or found a string that is no role.
LookupFault(o) == o.raised \/ o.row = "none" \/ ~RoleOfValue(o.row).ok

\* set.add and set.discard on the set object that u's cache entry holds: the
\* object of a role's table entry is changed in the table.
CacheSetUpdate(u, S) ==
    IF cache[u].kind = "role"
    THEN /\ ROLE_PERMISSIONS' = [ROLE_PERMISSIONS EXCEPT ![cache[u].role] = S]
         /\ UNCHANGED cache
    ELSE /\ cache' = [cache EXCEPT ![u] = OwnEntry(S)]
         /\ UNCHANGED ROLE_PERMISSIONS

\* The call in frame f goes on with the role that _get_user_role returned,
\* to its return.
Resolved(p, f, role, fault) ==
    LET u == f.user
        permissions == ROLE_PERMISSIONS[role]
        done == [f EXCEPT !.pc = "done", !.fault = fault]
    IN CASE f.op = "has_permission" ->
            \* lines 144-157
            /\ cache' = IF f.use_cache THEN [cache EXCEPT ![u] = RoleEntry(role)] ELSE cache
            /\ ac' = [ac EXCEPT ![p] = [done EXCEPT !.result = (f.perm \in permissions),
                                                     !.after = written[u]]]
            /\ UNCHANGED <<ROLE_PERMISSIONS, written>>
         [] f.op = "has_role" ->
            \* line 171
            /\ ac' = [ac EXCEPT ![p] = [done EXCEPT !.result = (role = f.role)]]
            /\ UNCHANGED <<ROLE_PERMISSIONS, cache, written>>
         [] f.op = "grant_permission" ->
            \* lines 206-216
            /\ cache' = [cache EXCEPT ![u] = OwnEntry(permissions \cup {f.perm})]
            /\ written' = [written EXCEPT ![u] = [kind |-> "grant", perm |-> f.perm]]
            /\ ac' = [ac EXCEPT ![p] = [done EXCEPT !.result = TRUE]]
            /\ UNCHANGED ROLE_PERMISSIONS
         [] f.op = "get_user_permissions" ->
            \* lines 276-290
            /\ cache' = [cache EXCEPT ![u] = OwnEntry(permissions)]
            /\ ac' = [ac EXCEPT ![p] = [done EXCEPT !.perms = permissions]]
            /\ UNCHANGED <<ROLE_PERMISSIONS, written>>

\* `await self._get_user_role(user_id)`: without a session the role is USER
\* at once (line 304); with one the coroutine is suspended at the lookup.
AwaitRole(p, f) ==
    IF session
    THEN /\ ac' = [ac EXCEPT ![p] = [f EXCEPT !.pc = "lookup"]]
         /\ UNCHANGED <<ROLE_PERMISSIONS, cache, written>>
    ELSE Resolved(p, f, "user", FALSE)

\* A call starts in coroutine 1, or in coroutine 2 while coroutine 1 is
\* suspended.
CanCheck(p) ==
    /\ left > 0
    /\ ac[p].pc \in {"idle", "done"}
    /\ p = 1 \/ ac[1].pc = "lookup"

\* has_permission(user_id, permission, use_cache), lines 133-137.
HasPermission(p, u, perm, use_cache) ==
    /\ CanCheck(p)
    /\ left' = left - 1
    /\ LET f == AcFrame("call", "has_permission", u, perm, "user", use_cache, <<>>)
       IN IF use_cache /\ Cached(u)
          THEN /\ ac' = [ac EXCEPT ![p] = [f EXCEPT !.pc = "done",
                              !.result = (perm \in CachePerms(u)), !.after = written[u]]]
               /\ UNCHANGED <<ROLE_PERMISSIONS, cache, written>>
          ELSE AwaitRole(p, f)
    /\ UNCHANGED <<storeVars, whVars, pipeVars, db, session>>

\* has_role(user_id, role), line 170.
HasRole(p, u, role) ==
    /\ CanCheck(p)
    /\ left' = left - 1
    /\ AwaitRole(p, AcFrame("call", "has_role", u, "read", role, TRUE, <<>>))
    /\ UNCHANGED <<storeVars, whVars, pipeVars, db, session>>

\* grant_permission(user_id, permission), lines 202-216.
GrantPermission(p, u, perm) ==
    /\ CanCheck(p)
    /\ left' = left - 1
    /\ LET f == AcFrame("call", "grant_permission", u, perm, "user", TRUE, <<>>)
       IN IF Cached(u)
          THEN /\ CacheSetUpdate(u, CachePerms(u) \cup {perm})
               /\ written' = [written EXCEPT ![u] = [kind |-> "grant", perm |-> perm]]
               /\ ac' = [ac EXCEPT ![p] = [f EXCEPT !.pc = "done", !.result = TRUE]]
          ELSE AwaitRole(p, f)
    /\ UNCHANGED <<storeVars, whVars, pipeVars, db, session>>

\* revoke_permission(user_id, permission), lines 240-250.
RevokePermission(p, u, perm) ==
    /\ CanCheck(p)
    /\ left' = left - 1
    /\ IF Cached(u)
       THEN CacheSetUpdate(u, CachePerms(u) \ {perm})
       ELSE UNCHANGED <<ROLE_PERMISSIONS, cache>>
    /\ written' = [written EXCEPT ![u] = [kind |-> "revoke", perm |-> perm]]
    /\ ac' = [ac EXCEPT ![p] = [AcFrame("done", "revoke_permission", u, perm, "user", TRUE, <<>>)
                                    EXCEPT !.result = TRUE]]
    /\ UNCHANGED <<storeVars, whVars, pipeVars, db, session>>

\* get_user_permissions(user_id), lines 270-274.
GetUserPermissions(p, u) ==
    /\ CanCheck(p)
    /\ left' = left - 1
    /\ LET f == AcFrame("call", "get_user_permissions", u, "read", "user", TRUE, <<>>)
       IN IF Cached(u)
          THEN /\ ac' = [ac EXCEPT ![p] = [f EXCEPT !.pc = "done", !.perms = CachePerms(u)]]
               /\ UNCHANGED <<ROLE_PERMISSIONS, cache, written>>
          ELSE AwaitRole(p, f)
    /\ UNCHANGED <<storeVars, whVars, pipeVars, db, session>>

\* The lookup that coroutine p awaits ends, and the call runs to its return.
Lookup(p) ==
    /\ ac[p].pc = "lookup"
    /\ \E o \in LookupOutcomes(ac[p].user) :
            Resolved(p, ac[p], GetUserRole(o), LookupFault(o))
    /\ UNCHANGED <<storeVars, whVars, pipeVars, left, db, session>>

\* `if user_id:` on clear_cache's argument: None and 0 are false.
Truthy(arg) == arg # <<>> /\ arg[1] # 0

\* The arguments of clear_cache: None (<<>>) or a principal id.
ClearArgs == {<<>>} \cup {<<u>> : u \in Users}

\* clear_cache(user_id), lines 353-358.
ClearCache(p, arg) ==
    /\ CanCheck(p)
    /\ left' = left - 1
    /\ cache' = IF Truthy(arg) THEN [cache EXCEPT ![arg[1]] = NoEntry]
                ELSE [u \in Users |-> NoEntry]
    /\ written' = [u \in Users |->
                    IF arg = <<u>> \/ cache'[u] # cache[u] THEN NoWrite ELSE written[u]]
    /\ ac' = [ac EXCEPT ![p] = AcFrame("done", "clear_cache", 0, "read", "user", TRUE, arg)]
    /\ UNCHANGED <<storeVars, whVars, pipeVars, ROLE_PERMISSIONS, db, session>>

InitChecker ==
    /\ horizon = 0
    /\ InitStore
    /\ conf = ScenarioConf
    /\ left = MaxChecks
    /\ ROLE_PERMISSIONS = RolePermissionsLiteral
    /\ cache = [u \in Users |-> NoEntry]
    /\ db \in Dbs
    /\ session \in BOOLEAN
    /\ ac = [p \in Procs |-> AcIdle]
    /\ written = [u \in Users |-> NoWrite]
    /\ WebhookIdle

NextChecker ==
    \/ \E p \in Procs, u \in Users, perm \in AskedPermissions, use_cache \in BOOLEAN :
            HasPermission(p, u, perm, use_cache)
    \/ \E p \in Procs, u \in Users, role \in AskedRoles : HasRole(p, u, role)
    \/ \E p \in Procs, u \in Users, perm \in AskedPermissions : GrantPermission(p, u, perm)
    \/ \E p \in Procs, u \in Users, perm \in AskedPermissions : RevokePermission(p, u, perm)
    \/ \E p \in Procs, u \in Users : GetUserPermissions(p, u)
    \/ \E p \in Procs, arg \in ClearArgs : ClearCache(p, arg)
    \/ \E p \in Procs : Lookup(p)

SpecChecker == InitChecker /\ [][NextChecker]_vars

\* ------------------------------------------- SignatureValidator, the calls
\* Mutant of Configured: only a missing secret counts as not configured.
ConfiguredNotNone(secret) == secret # "none"

\* `if not secret` on self.secrets.get(provider): None and "" are false.
Configured(secret) == ~(secret \in {"none", ""})

Abs(x) == IF x < 0 THEN -x ELSE x

\* A body of a try block ends with "true", "false" or "raise".
Bool(b) == IF b THEN "true" ELSE "false"

\* Mutant of CheckTimestamp: a timestamp in the past is never too old.
CheckTimestampFutureOnly(timestamp, clock) ==
    IF timestamp.kind # "int" THEN "raise"
    ELSE Bool(~(timestamp.value - IntTrunc(clock) > replay_window))

\* _check_timestamp, lines 350-359; abs() of an int and a str raises.
CheckTimestamp(timestamp, clock) ==
    IF timestamp.kind # "int" THEN "raise"
    ELSE LET current_time == IntTrunc(clock)
             time_diff == Abs(current_time - timestamp.value)
         IN Bool(~(time_diff > replay_window))

\* Lines 131-136 and 296-301: the timestamp of a payload whose signature is
\* valid is checked.
ReplayChecked(is_valid, payload, clock) ==
    IF is_valid /\ payload.timestamp.kind # "absent"
    THEN IF CheckTimestamp(payload.timestamp, clock) = "true" THEN "true"
         ELSE CheckTimestamp(payload.timestamp, clock)
    ELSE Bool(is_valid)

\* validate_yookassa, the try block (lines 62-89).
YookassaBody(payload, signature) ==
    LET secret == secrets["yookassa"]
    IN IF ~Configured(secret) THEN "false"
       ELSE IF payload.object = "null" THEN "raise"
       ELSE IF Falsy(payload.event) \/ Falsy(ObjectId(payload)) THEN "false"
       ELSE Bool(CompareDigest(signature, ExpectedSignature("yookassa", secret, payload)))

\* validate_cryptopay, the try block (lines 111-136).
CryptopayBody(payload, signature, clock) ==
    LET secret == secrets["cryptopay"]
    IN IF ~Configured(secret) THEN "false"
       ELSE ReplayChecked(
                CompareDigest(signature, ExpectedSignature("cryptopay", secret, payload)),
                payload, clock)

\* validate_freekassa, the try block (lines 158-180).
FreekassaBody(payload, signature) ==
    LET secret == secrets["freekassa"]
    IN IF ~Configured(secret) THEN "false"
       ELSE IF Falsy(payload.MERCHANT_ID) \/ Falsy(payload.AMOUNT)
                \/ Falsy(payload.MERCHANT_ORDER_ID) THEN "false"
       ELSE Bool(CompareDigest(StrLower(signature),
                               StrLower(ExpectedSignature("freekassa", secret, payload))))

\* validate_tribute, the try block (lines 202-221).
TributeBody(payload, signature) ==
    LET secret == secrets["tribute"]
    IN IF ~Configured(secret) THEN "false"
       ELSE Bool(CompareDigest(signature, ExpectedSignature("tribute", secret, payload)))

\* validate_stars, the try block (lines 243-254).
StarsBody(payload, signature) ==
    LET secret == secrets["stars"]
    IN IF ~Configured(secret) THEN "false"
       ELSE Bool(CompareDigest(signature, ExpectedSignature("stars", secret, payload)))

\* validate_panel, the try block (lines 276-301).
PanelBody(payload, signature, clock) ==
    LET secret == secrets["panel"]
    IN IF ~Configured(secret) THEN "false"
       ELSE ReplayChecked(
                CompareDigest(signature, ExpectedSignature("panel", secret, payload)),
                payload, clock)

\* `except Exception: return False` around each validator's body: what the
\* validator returns, and whether an exception leaves it.
Caught(outcome) == [value |-> (outcome = "true"), raised |-> FALSE]

\* validate(provider, payload, signature), lines 324-338, at clock reading
\* `clock`.
Validate(id, payload, signature, clock) ==
    LET provider == Lower(id)
    IN CASE provider = "yookassa" -> Caught(YookassaBody(payload, signature))
         [] provider = "cryptopay" -> Caught(CryptopayBody(payload, signature, clock))
         [] provider = "freekassa" -> Caught(FreekassaBody(payload, signature))
         [] provider = "tribute" -> Caught(TributeBody(payload, signature))
         [] provider = "stars" -> Caught(StarsBody(payload, signature))
         [] provider = "panel" -> Caught(PanelBody(payload, signature, clock))
         [] OTHER -> [value |-> FALSE, raised |-> FALSE]

\* The call of validate that the frame holds is made.
ValidateCall ==
    /\ wh.pc = "call" /\ wh.op = "validate"
    /\ LET r == Validate(wh.provider, wh.payload, wh.signature, wh.clock)
       IN wh' = [wh EXCEPT !.pc = "done", !.result = r.value, !.raised = r.raised]
    /\ UNCHANGED <<storeVars, left, acVars, secrets, whitelists, pipeVars>>

InitValidator ==
    /\ horizon = 0
    /\ InitStore
    /\ CheckerIdle
    /\ conf = ScenarioConf
    /\ left = 0
    /\ secrets \in SecretSets
    /\ whitelists = DefaultWhitelists
    /\ \E id \in ProviderIds, payload \in Payloads, clock \in Clocks :
          \E sig \in SigChoices(id, payload) :
             wh = ValidateFrame(id, payload, sig, clock)

NextValidator == ValidateCall

SpecValidator == InitValidator /\ [][NextValidator]_vars

\* ------------------------------------------------- validate_webhook
\* The requests that reach a decorated handler.
YookassaAddress == V4Text(185, 71, 76, 5)
StarsAddress == V4Text(149, 154, 167, 99)
OtherAddress == V4Text(8, 8, 8, 8)

Requests ==
    [has_validator : BOOLEAN, has_whitelist : BOOLEAN, check_ip : BOOLEAN,
     has_forwarded : BOOLEAN,
     forwarded : {<<>>, <<YookassaAddress>>, <<OtherAddress, YookassaAddress>>},
     remote : {NoneText, StarsAddress, OtherAddress},
     has_signature : BOOLEAN, json : BOOLEAN]

DecoratedPayloads ==
    {EmptyPayload, [EmptyPayload EXCEPT !.event = "payment.succeeded", !.object = "o1"]}

DecoratedIds == {"yookassa", "stars", "YooKassa", "paypal"}

\* The frame of a request to a handler decorated with validate_webhook(id).
WebhookFrame(id, payload, sig, req) ==
    [WhIdle EXCEPT !.pc = "call", !.op = "webhook", !.provider = id,
                   !.payload = payload, !.signature = sig,
                   !.clock = replay_window * TicksPerSec, !.request = req]

\* request.headers.get('X-Forwarded-For', request.remote), and of that the
\* text before the first comma if it is not empty.
ClientIp(req) ==
    IF ~req.has_forwarded THEN req.remote
    ELSE IF req.forwarded = <<>> THEN EmptyText
    ELSE req.forwarded[1]

\* Mutant of SignatureMissing: only an absent header is missing.
SignatureAbsent(req, signature) == ~req.has_signature

\* `if not signature` on request.headers.get(header_name).
SignatureMissing(req, signature) ==
    ~req.has_signature \/ signature = Sig(Text(""), "exact")

Response(status, text, handler) == [status |-> status, text |-> text, handler |-> handler]

\* wrapper(request), lines 38-109, of a handler decorated with
\* validate_webhook(provider, check_ip).
Wrapper(id, req, payload, signature, clock) ==
    IF ~req.has_validator THEN Response(500, "Internal server error", 0)
    ELSE IF req.check_ip /\ req.has_whitelist
            /\ ~IsAllowed(whitelists, id, ClientIp(req))
    THEN Response(403, "Forbidden", 0)
    ELSE IF SignatureMissing(req, signature)
    THEN Response(401, "Unauthorized: Missing signature", 0)
    ELSE IF ~req.json THEN Response(400, "Bad request: Invalid JSON", 0)
    ELSE IF ~Validate(id, payload, signature, clock).value
    THEN Response(401, "Unauthorized: Invalid signature", 0)
    ELSE Response(200, "handled", 1)

\* The request that the frame holds is served.
WebhookRequest ==
    /\ wh.pc = "call" /\ wh.op = "webhook"
    /\ LET r == Wrapper(wh.provider, wh.request, wh.payload, wh.signature, wh.clock)
       IN wh' = [wh EXCEPT !.pc = "done", !.status = r.status, !.text = r.text,
                           !.handler = @ + r.handler]
    /\ UNCHANGED <<storeVars, left, acVars, secrets, whitelists, pipeVars>>

InitDecorator ==
    /\ horizon = 0
    /\ InitStore
    /\ CheckerIdle
    /\ conf = ScenarioConf
    /\ left = 0
    /\ secrets \in {[pr \in Providers |-> "k1"], [pr \in Providers |-> ""]}
    /\ whitelists = DefaultWhitelists
    /\ \E id \in DecoratedIds, payload \in DecoratedPayloads, req \in Requests :
          \E sig \in SigChoices(id, payload) :
             wh = WebhookFrame(id, payload, sig, req)

NextDecorator == WebhookRequest

SpecDecorator == InitDecorator /\ [][NextDecorator]_vars

\* ------------------------------------------------- IPWhitelist, the calls
\* The providers, network texts and address texts that the calls are made
\* with: "8.8.8.8/24" has host bits, "8.8.8.256" and "8.8.8.8/33" do not
\* parse, "1.2.3" has three groups.
ListedProviders == {"yookassa", "cryptopay", "panel", "paypal"}

NetTexts ==
    {NetText(V4Text(8, 8, 8, 8), 24), NetText(V4Text(185, 71, 76, 0), 27),
     NetText(Loopback6, NoPrefix), NetText(V4Text(8, 8, 8, 256), NoPrefix),
     NetText(V4Text(8, 8, 8, 8), 33)}

AddressTexts ==
    {YookassaAddress, V4Text(185, 71, 76, 31), V4Text(185, 71, 76, 32), OtherAddress,
     V4Text(8, 8, 9, 1), Loopback6, V6Text(<<8193, 3512, 0, 0, 0, 0, 0, 1>>),
     NoneText, EmptyText, V4Text(1, 2, 3, 256), [sep |-> ".", groups |-> <<1, 2, 3>>]}

\* The frame of a finished whitelist call.
Listed(op, provider, text, result) ==
    [WhIdle EXCEPT !.pc = "done", !.op = op, !.provider = provider, !.address = text,
                   !.result = result]

\* self.whitelists[provider] = networks
SetWhitelist(provider, networks) ==
    [pr \in DOMAIN whitelists \cup {provider} |->
        IF pr = provider THEN networks ELSE whitelists[pr]]

CanEdit ==
    /\ left > 0
    /\ left' = left - 1
    /\ UNCHANGED <<storeVars, acVars, secrets, pipeVars>>

IsAllowedCall(provider, text) ==
    /\ wh' = Listed("is_allowed", provider, NetText(text, NoPrefix),
                    IsAllowed(whitelists, provider, text))
    /\ UNCHANGED <<storeVars, left, acVars, secrets, whitelists, pipeVars>>

AddIp(provider, text) ==
    /\ CanEdit
    /\ LET network == ParseNetwork(text)
       IN IF network = Invalid
          THEN wh' = Listed("add_ip", provider, text, FALSE) /\ UNCHANGED whitelists
          ELSE /\ whitelists' =
                    SetWhitelist(provider,
                                 (IF provider \in DOMAIN whitelists
                                  THEN whitelists[provider] ELSE {}) \cup {network})
               /\ wh' = Listed("add_ip", provider, text, TRUE)

RemoveIp(provider, text) ==
    /\ CanEdit
    /\ LET network == ParseNetwork(text)
       IN IF provider \in DOMAIN whitelists /\ network # Invalid
                /\ network \in whitelists[provider]
          THEN /\ whitelists' = SetWhitelist(provider, whitelists[provider] \ {network})
               /\ wh' = Listed("remove_ip", provider, text, TRUE)
          ELSE wh' = Listed("remove_ip", provider, text, FALSE) /\ UNCHANGED whitelists

ClearWhitelist(provider) ==
    /\ CanEdit
    /\ IF provider \in DOMAIN whitelists
       THEN /\ whitelists' = SetWhitelist(provider, {})
            /\ wh' = Listed("clear_whitelist", provider, WhIdle.address, TRUE)
       ELSE /\ wh' = Listed("clear_whitelist", provider, WhIdle.address, FALSE)
            /\ UNCHANGED whitelists

\* 0.0.0.0/0 and ::/0
UniversalNetworks ==
    ParseIpList({NetText(V4Text(0, 0, 0, 0), 0), NetText(Unspecified6, 0)})

DisableWhitelist(provider) ==
    /\ CanEdit
    /\ whitelists' = SetWhitelist(provider, UniversalNetworks)
    /\ wh' = Listed("disable_whitelist", provider, WhIdle.address, TRUE)

InitWhitelist ==
    /\ horizon = 0
    /\ InitStore
    /\ CheckerIdle
    /\ conf = ScenarioConf
    /\ left = MaxEdits
    /\ WebhookIdle

NextWhitelist ==
    \/ \E provider \in ListedProviders, text \in AddressTexts : IsAllowedCall(provider, text)
    \/ \E provider \in ListedProviders, text \in NetTexts : AddIp(provider, text)
    \/ \E provider \in ListedProviders, text \in NetTexts : RemoveIp(provider, text)
    \/ \E provider \in ListedProviders : ClearWhitelist(provider)
    \/ \E provider \in ListedProviders : DisableWhitelist(provider)

SpecWhitelist == InitWhitelist /\ [][NextWhitelist]_vars

\* ------------------------------------- PermissionChecker, a store that works
\* The lookup that coroutine p awaits returns the principal's row (or None):
\* the identity store does not fail.
LookupFound(p) ==
    /\ ac[p].pc = "lookup"
    /\ LET o == [raised |-> FALSE, row |-> db[ac[p].user]]
       IN Resolved(p, ac[p], GetUserRole(o), LookupFault(o))
    /\ UNCHANGED <<storeVars, whVars, pipeVars, left, db, session>>

NextRoles ==
    \/ \E p \in Procs, u \in Users, perm \in AskedPermissions, use_cache \in BOOLEAN :
            HasPermission(p, u, perm, use_cache)
    \/ \E p \in Procs, u \in Users, perm \in AskedPermissions : GrantPermission(p, u, perm)
    \/ \E p \in Procs, u \in Users, perm \in AskedPermissions : RevokePermission(p, u, perm)
    \/ \E p \in Procs, u \in Users : GetUserPermissions(p, u)
    \/ \E p \in Procs, arg \in ClearArgs : ClearCache(p, arg)
    \/ \E p \in Procs : LookupFound(p)

SpecRoles == InitChecker /\ [][NextRoles]_vars

\* ------------------------------------------------- one request at a time
\* The principal's requests are served one after the other, and an
\* administrator may lift the block.
InitSerial ==
    /\ horizon = MaxTime
    /\ InitStore
    /\ CheckerIdle
    /\ WebhookIdle
    /\ conf \in MwConfs
    /\ left = SerialRequests

NextSerial ==
    \/ Tick
    \/ UnblockUser
    \/ MwRequest(1)
    \/ LimiterStep(1)
    \/ MwSetex(1)

SpecSerial == InitSerial /\ [][NextSerial]_vars

\* ------------------------------------------------------- SpecDelayed
\* check_rate_limit calls whose transaction the event loop or the store may
\* hold back: a call may be suspended at an await for up to MaxDelay ticks
\* after it read the clock.
TickDelayed ==
    /\ now < horizon
    /\ \A p \in Procs : InFlight(p) => now - rl[p].ct < MaxDelay
    /\ now' = now + 1
    /\ zs' = [k \in ZKeys |-> IF Expired(ttl[k], now') THEN {} ELSE zs[k]]
    /\ ttl' = [k \in ZKeys |-> IF Expired(ttl[k], now') THEN NoTTL ELSE ttl[k]]
    /\ block' = IF Expired(block, now') THEN NoTTL ELSE block
    /\ UNCHANGED <<conf, rl, mw, left, horizon, last, admitted, acVars, whVars, pipeVars>>

NextDelayed ==
    \/ TickDelayed
    \/ \E p \in Procs : CallCheck(p, "user")
    \/ \E p \in Procs : LimiterStep(p)

SpecDelayed == Init /\ [][NextDelayed]_vars

\* ----------------------------------------------------- SpecIncrement
\* Callers that only call increment(key, window) on one key.
NextIncrement ==
    \/ Tick
    \/ \E p \in Procs : CallIncrement(p, "user")
    \/ \E p \in Procs : IncrPipeline(p)

SpecIncrement == Init /\ [][NextIncrement]_vars

\* ------------------------------------ SpecRoleChange: roles that change
\* The role column of principal u's row in the identity store is set to
\* role r by the application; the PermissionChecker is not told.
SetRole(u, r) ==
    /\ session
    /\ db[u] # r
    /\ db' = [db EXCEPT ![u] = r]
    /\ UNCHANGED <<storeVars, whVars, pipeVars, left, ROLE_PERMISSIONS, cache, session, ac, written>>

NextRoleChange ==
    \/ \E p \in Procs, u \in Users, perm \in AskedPermissions, use_cache \in BOOLEAN :
            HasPermission(p, u, perm, use_cache)
    \/ \E p \in Procs, u \in Users, role \in AskedRoles : HasRole(p, u, role)
    \/ \E p \in Procs, arg \in ClearArgs : ClearCache(p, arg)
    \/ \E p \in Procs : LookupFound(p)
    \/ \E u \in Users, r \in AskedRoles : SetRole(u, r)

SpecRoleChange == InitChecker /\ [][NextRoleChange]_vars

\* ----------------------------------------------------------- is_blocked
\* is_blocked, line 195: the call awaits check_rate_limit(key, limit, window).
IsBlockedFrame(p, k, limit, window) ==
    [CheckFrame(p, k, limit, window) EXCEPT !.op = "is_blocked"]

\* `return not allowed`, line 196, on the frame of the check that returned.
IsBlocked(f) == ~f.allowed

\* A caller calls is_blocked(key, limit, window).
CallIsBlocked(p, k) ==
    /\ CanCall(p)
    /\ rl' = Enter(p, IsBlockedFrame(p, k, KeyLimit(k), KeyWindow(k)))
    /\ last' = [last EXCEPT ![k] = now]
    /\ left' = left - 1
    /\ UNCHANGED <<now, zs, ttl, conf, block, mw, horizon, admitted, acVars, whVars, pipeVars>>

NextIsBlocked ==
    \/ Tick
    \/ \E p \in Procs : CallIsBlocked(p, "user")
    \/ \E p \in Procs : LimiterStep(p)

SpecIsBlocked == Init /\ [][NextIsBlocked]_vars

\* ------------------------------------------- the governed request: steps
\* EXISTS key
RExists(r, k) == r[k].kind # "none"

\* SETEX key seconds "1"
RSetex(r, k, seconds) ==
    [r EXCEPT ![k] = [NoValue EXCEPT !.kind = "string", !.ttl = ExpireAt(seconds)]]

\* HSET key mapping: the fields are set, a TTL that the key has stays.
RHset(r, k, h) == [r EXCEPT ![k] = [@ EXCEPT !.kind = "hash", !.hash = h]]

\* EXPIRE key seconds: nothing for a key that does not exist.
RExpire(r, k, seconds) ==
    IF RExists(r, k) THEN [r EXCEPT ![k].ttl = ExpireAt(seconds)] ELSE r

\* The entries of z with a score above lo.
Newer(z, lo) == {e \in z : e.score > lo}

\* check_rate_limit(key, limit, window), lines 56-98, run without another
\* store command in between, at current_time = now: the store after it and
\* the tuple it returns.  An entry's member is str(current_time), so the
\* ZADD of a score that is there adds nothing and the ZREM of the roll back
\* removes the entry of that score.
CheckRateLimit(r, k, limit, window, by) ==
    LET pruned == {e \in r[k].entries :
                      ~(0 <= e.score /\ e.score <= now - window * TicksPerSec)}
        current_count == Cardinality(pruned)
        added == IF \E e \in pruned : e.score = now THEN pruned
                 ELSE pruned \cup {[score |-> now, by |-> by]}
        allowed == Allowed(current_count, limit)
        kept == IF allowed THEN added ELSE {e \in added : e.score # now}
        oldest == CHOOSE e \in kept : \A f \in kept : e.score <= f.score
    IN [redis |-> [r EXCEPT ![k] =
                      IF kept = {} THEN NoValue
                      ELSE [NoValue EXCEPT !.kind = "zset", !.entries = kept,
                                           !.ttl = ExpireAt(window + 1)]],
        allowed |-> allowed,
        count |-> current_count,
        reset |-> IF allowed \/ kept = {} THEN window
                  ELSE IntTrunc(window * TicksPerSec - (now - oldest.score))]

\* `except Exception` of check_rate_limit, lines 100-103, the transaction not
\* having run.
CheckFailedOpen(r, window) ==
    [redis |-> r, allowed |-> TRUE, count |-> 0, reset |-> window]

\* The principal of a frame's event.
UserOf(f) == f.event.user

\* Lines 67-74: `if not user_id` forwards the event at once.
ArriveStep(r, f) ==
    [redis |-> r,
     frame |-> IF UserOf(f) = 0 THEN [f EXCEPT !.pc = "handler", !.skipped = TRUE]
               ELSE [f EXCEPT !.pc = "exists"]]

\* Lines 77-96: EXISTS on the block record.
ExistsStep(r, f) ==
    [redis |-> r,
     frame |-> IF RExists(r, Key("blocked", UserOf(f)))
               THEN [f EXCEPT !.pc = "done", !.outcome = "blocked"]
               ELSE [f EXCEPT !.pc = "primary"]]

\* Lines 99-106, the primary check having returned tuple t.
AfterPrimaryCheck(f, t) ==
    [redis |-> t.redis,
     frame |-> [f EXCEPT !.checks = @ + 1, !.allowed = t.allowed, !.reset = t.reset,
                         !.pc = IF t.allowed THEN "hset" ELSE "spam"]]

\* Mutant of PrimaryStep: the primary window is kept under one key for all
\* users.
PrimaryStepShared(r, f) ==
    AfterPrimaryCheck(f, CheckRateLimit(r, Key("user", 0), conf.limit, conf.window,
                                        "middleware"))

PrimaryStep(r, f) ==
    AfterPrimaryCheck(f, CheckRateLimit(r, Key("user", UserOf(f)), conf.limit, conf.window,
                                        "middleware"))

\* Lines 113-156, the spam check having returned tuple t.
AfterSpamCheck(f, t) ==
    [redis |-> t.redis,
     frame |-> IF t.allowed
               THEN [f EXCEPT !.checks = @ + 1, !.pc = "done", !.outcome = "rate_limited"]
               ELSE [f EXCEPT !.checks = @ + 1, !.pc = "setex"]]

SpamStep(r, f) ==
    AfterSpamCheck(f, CheckRateLimit(r, Key("spam", UserOf(f)), conf.spam_limit,
                                     conf.spam_window, "middleware"))

\* _block_user, lines 174-181, and the answer of lines 129-141.
SetexStep(r, f) ==
    [redis |-> RSetex(r, Key("blocked", UserOf(f)), conf.block_duration),
     frame |-> [f EXCEPT !.pc = "done", !.outcome = "blocked_now"]]

\* Lines 201-203 and 205-206: event.text or event.caption or "media" for a
\* Message (the caption being None), event.data for a CallbackQuery.
EventData(ev) ==
    IF ev.kind = "message" /\ ~(ev.text.some /\ ev.text.len > 0) THEN TextOf(5)
    ELSE ev.text

\* event_data[:100]
Truncated(len) == IF len > 100 THEN 100 ELSE len

\* Lines 212-219: the mapping that is stored; a CallbackQuery has no date.
ActivityHash(ev) ==
    [type |-> IF ev.kind = "message" THEN "message" ELSE "callback",
     data |-> Truncated(EventData(ev).len),
     timestamp |-> IF ev.kind = "message" THEN ev.date ELSE 0]

\* _log_activity up to its first await, lines 197-219: None[:100] raises
\* TypeError, which line 228 catches, and the handler comes next.
HsetStep(r, f) ==
    IF ~EventData(f.event).some
    THEN [redis |-> r, frame |-> [f EXCEPT !.pc = "handler"]]
    ELSE [redis |-> RHset(r, Key("activity", UserOf(f)), ActivityHash(f.event)),
          frame |-> [f EXCEPT !.pc = "expire"]]

\* self.activity TTL, line 225
activity_ttl == 86400

\* Lines 222-226: EXPIRE on the activity key.
ExpireStep(r, f) ==
    [redis |-> RExpire(r, Key("activity", UserOf(f)), activity_ttl),
     frame |-> [f EXCEPT !.pc = "handler"]]

\* Mutant of Granted: the handler of a gated request runs whatever the
\* check answered.
GrantedAlways(deco) == TRUE

\* `if not has_perm` / `if not has_role` on what the checker answered.
Granted(deco) == deco.granted

\* wrapper of require_permission and of require_role (access_control/
\* decorators.py, lines 29-72 and 92-130): without checker, without user id
\* or without the permission the function is not called.
GateStep(r, f) ==
    [redis |-> r,
     frame |-> IF f.deco.checker /\ UserOf(f) # 0 /\ Granted(f.deco)
               THEN [f EXCEPT !.pc = "done", !.outcome = "passed", !.handler = TRUE]
               ELSE [f EXCEPT !.pc = "done", !.outcome = "forbidden"]]

\* key_func of rate_limit_user, lines 113-117: f"user:{arg.from_user.id}".
DecoratorKey(id) == Key("user", id)

\* wrapper of rate_limit (rate_limiter/decorators.py, lines 38-88) as
\* rate_limit_user builds it: data holds 'rate_limiter' only when the
\* middleware has put it there (middleware.py line 159).
LimitStep(r, f) ==
    IF f.skipped
    THEN [redis |-> r, frame |-> [f EXCEPT !.pc = "done", !.outcome = "passed",
                                          !.handler = TRUE]]
    ELSE LET k == DecoratorKey(UserOf(f))
             t == CheckRateLimit(r, k, f.deco.limit, f.deco.window, "decorator")
             own == {e \in Newer(r[k].entries, now - f.deco.window * TicksPerSec) :
                        e.by = "decorator"}
         IN [redis |-> t.redis,
             frame |-> [f EXCEPT !.pc = "done", !.checks = @ + 1, !.count = t.count,
                                 !.tagged = Cardinality(own),
                                 !.handler = t.allowed,
                                 !.outcome = IF t.allowed THEN "passed" ELSE "limited"]]

\* `return await handler(event, data)`, lines 74 and 165: the handler, as it
\* is decorated.
HandlerStep(r, f) ==
    CASE f.deco.kind \in {"require_permission", "require_role"} -> GateStep(r, f)
      [] f.deco.kind = "rate_limit_user" -> LimitStep(r, f)
      [] OTHER -> [redis |-> r,
                   frame |-> [f EXCEPT !.pc = "done", !.outcome = "passed",
                                       !.handler = TRUE]]

\* What coroutine c's request does next on store r.
GovernedStep(r, f) ==
    CASE f.pc = "exists" -> ExistsStep(r, f)
      [] f.pc = "primary" -> PrimaryStep(r, f)
      [] f.pc = "spam" -> SpamStep(r, f)
      [] f.pc = "setex" -> SetexStep(r, f)
      [] f.pc = "hset" -> HsetStep(r, f)
      [] f.pc = "expire" -> ExpireStep(r, f)
      [] f.pc = "handler" -> HandlerStep(r, f)

\* Coroutine c's request makes step s.
Commit(c, s) ==
    /\ redis' = s.redis
    /\ greq' = [greq EXCEPT ![c] = s.frame]
    /\ UNCHANGED <<storeVars, left, acVars, whVars>>

\* __call__(handler, event, data): a request with event ev arrives for a
\* handler decorated as deco says.
GovernedRequest(c, ev, deco) ==
    /\ left > 0
    /\ greq[c].pc \in {"idle", "done"}
    /\ left' = left - 1
    /\ greq' = [greq EXCEPT ![c] =
                  ArriveStep(redis, [ReqIdle EXCEPT !.id = left, !.deco = deco,
                                                   !.event = [ev EXCEPT !.date = now]]).frame]
    /\ UNCHANGED <<storeVars, acVars, whVars, redis>>

GovernedExists(c) == greq[c].pc = "exists" /\ Commit(c, ExistsStep(redis, greq[c]))
GovernedPrimary(c) == greq[c].pc = "primary" /\ Commit(c, PrimaryStep(redis, greq[c]))
GovernedSpam(c) == greq[c].pc = "spam" /\ Commit(c, SpamStep(redis, greq[c]))
GovernedSetex(c) == greq[c].pc = "setex" /\ Commit(c, SetexStep(redis, greq[c]))
GovernedHset(c) == greq[c].pc = "hset" /\ Commit(c, HsetStep(redis, greq[c]))
GovernedExpire(c) == greq[c].pc = "expire" /\ Commit(c, ExpireStep(redis, greq[c]))
GovernedHandler(c) == greq[c].pc = "handler" /\ Commit(c, HandlerStep(redis, greq[c]))

\* The clock advances by one tick and the store drops the keys whose TTL
\* has run out.
GovernedTick ==
    /\ now < horizon
    /\ now' = now + 1
    /\ redis' = [k \in Keys |-> IF Expired(redis[k].ttl, now') THEN NoValue ELSE redis[k]]
    /\ UNCHANGED <<zs, ttl, conf, rl, block, mw, left, horizon, last, admitted, acVars,
                   whVars, greq>>

\* ------------------------------------------ the governed request alone
\* The middleware's settings in the runs of the governed request.
GovernedConf ==
    [limit |-> 1, window |-> 1, spam_limit |-> 1, spam_window |-> 1, block_duration |-> 1]

InitGoverned ==
    /\ horizon = MaxTime
    /\ InitStore
    /\ CheckerIdle
    /\ WebhookIdle
    /\ conf = GovernedConf
    /\ left = PipeRequests

\* The events: a Message with or without text, a CallbackQuery with or
\* without data, of no identifiable user (id 0) or of user 1.
ActivityEvents ==
    [kind : {"message", "callback"}, user : {0, 1},
     text : {NoText, TextOf(3), TextOf(LongText)}, date : {0}]

\* One coroutine serves undecorated handlers, request after request.
NextActivity ==
    \/ GovernedTick
    \/ \E ev \in ActivityEvents : GovernedRequest(1, ev, NoDeco)
    \/ GovernedExists(1)
    \/ GovernedPrimary(1)
    \/ GovernedSpam(1)
    \/ GovernedSetex(1)
    \/ GovernedHset(1)
    \/ GovernedExpire(1)
    \/ GovernedHandler(1)

SpecActivity == InitGoverned /\ [][NextActivity]_vars

\* ------------------------------------------ the store fails under a request
\* A store call of coroutine c's request fails (ConnectionError): the frame
\* after it.  The calls of lines 78 and 177 are awaited outside any try, so
\* the error leaves __call__.
Raises(f) == [f EXCEPT !.pc = "done", !.outcome = "raised", !.raised = TRUE, !.failed = TRUE]

\* EXISTS fails, lines 78-80.
ExistsFault(c) ==
    /\ greq[c].pc = "exists"
    /\ Commit(c, [redis |-> redis, frame |-> Raises(greq[c])])

\* The transaction of the primary check fails: check_rate_limit returns
\* (True, 0, window), redis_rate_limiter.py lines 100-103.
PrimaryFault(c) ==
    /\ greq[c].pc = "primary"
    /\ Commit(c, AfterPrimaryCheck([greq[c] EXCEPT !.failed = TRUE],
                                   CheckFailedOpen(redis, conf.window)))

\* The transaction of the spam check fails: spam_allowed is True and lines
\* 143-156 answer the rejection of the primary check.
SpamFault(c) ==
    /\ greq[c].pc = "spam"
    /\ Commit(c, AfterSpamCheck([greq[c] EXCEPT !.failed = TRUE],
                                CheckFailedOpen(redis, conf.spam_window)))

\* SETEX fails, lines 177-181.
SetexFault(c) ==
    /\ greq[c].pc = "setex"
    /\ Commit(c, [redis |-> redis, frame |-> Raises(greq[c])])

\* HSET or EXPIRE fails inside the try of _log_activity: line 228 catches.
ActivityFault(c) ==
    /\ greq[c].pc \in {"hset", "expire"}
    /\ Commit(c, [redis |-> redis,
                  frame |-> [greq[c] EXCEPT !.pc = "handler", !.failed = TRUE]])

\* Messages with a text, of user 1.
OutageEvents == [kind : {"message"}, user : {1}, text : {TextOf(3)}, date : {0}]

NextOutage ==
    \/ GovernedTick
    \/ \E ev \in OutageEvents : GovernedRequest(1, ev, NoDeco)
    \/ GovernedExists(1)
    \/ GovernedPrimary(1)
    \/ GovernedSpam(1)
    \/ GovernedSetex(1)
    \/ GovernedHset(1)
    \/ GovernedExpire(1)
    \/ GovernedHandler(1)
    \/ ExistsFault(1)
    \/ PrimaryFault(1)
    \/ SpamFault(1)
    \/ SetexFault(1)
    \/ ActivityFault(1)

SpecOutage == InitGoverned /\ [][NextOutage]_vars

\* ------------------------------- the governed request, handler rate limited
\* rate_limit_user(limit, window) on the handler, with a window longer than
\* the middleware's.
LimitDeco ==
    [kind |-> "rate_limit_user", checker |-> FALSE, granted |-> FALSE,
     limit |-> PipeRequests, window |-> 2]

\* The middleware's settings: a limit that the requests of a run do not
\* reach.
LimitConf ==
    [limit |-> PipeRequests, window |-> 1, spam_limit |-> 1, spam_window |-> 1,
     block_duration |-> 1]

InitLimited ==
    /\ horizon = MaxTime
    /\ InitStore
    /\ CheckerIdle
    /\ WebhookIdle
    /\ conf = LimitConf
    /\ left = PipeRequests

NextLimited ==
    \/ GovernedTick
    \/ \E ev \in OutageEvents : GovernedRequest(1, ev, LimitDeco)
    \/ GovernedExists(1)
    \/ GovernedPrimary(1)
    \/ GovernedHset(1)
    \/ GovernedExpire(1)
    \/ GovernedHandler(1)

SpecLimited == InitLimited /\ [][NextLimited]_vars

\* ------------------------------------- the governed request, handler gated
\* @require_permission(...) or @require_role(...) on the handler; checker
\* says whether the handler's kwargs hold a 'permission_checker', granted is
\* what has_permission or has_role answers for the user.
Gates ==
    [kind : {"require_permission", "require_role"}, checker : BOOLEAN, granted : BOOLEAN,
     limit : {1}, window : {1}]

\* Messages with a text, of no identifiable user or of user 1.
GatedEvents == [kind : {"message"}, user : {0, 1}, text : {TextOf(3)}, date : {0}]

Gated(f) == f.deco.kind \in {"require_permission", "require_role"}

\* One coroutine serves gated handlers, request after request.
NextGated ==
    \/ GovernedTick
    \/ \E ev \in GatedEvents, deco \in Gates : GovernedRequest(1, ev, deco)
    \/ GovernedExists(1)
    \/ GovernedPrimary(1)
    \/ GovernedSpam(1)
    \/ GovernedSetex(1)
    \/ GovernedHset(1)
    \/ GovernedExpire(1)
    \/ GovernedHandler(1)

SpecGated == InitGoverned /\ [][NextGated]_vars

\* ------------------------------------ governed requests of two principals
\* Messages with a text, of user 1 or of user 2.
IsolatedEvents == [kind : {"message"}, user : {1, 2}, text : {TextOf(3)}, date : {0}]

InitIsolated ==
    /\ horizon = IsolatedTime
    /\ InitStore
    /\ CheckerIdle
    /\ WebhookIdle
    /\ conf = GovernedConf
    /\ left = PipeRequests

\* Two coroutines serve undecorated handlers.
NextIsolated ==
    \/ GovernedTick
    \/ \E c \in Procs, ev \in IsolatedEvents : GovernedRequest(c, ev, NoDeco)
    \/ \E c \in Procs :
          \/ GovernedExists(c)
          \/ GovernedPrimary(c)
          \/ GovernedSpam(c)
          \/ GovernedSetex(c)
          \/ GovernedHset(c)
          \/ GovernedExpire(c)
          \/ GovernedHandler(c)

SpecIsolated == InitIsolated /\ [][NextIsolated]_vars

\* ------------------------------------------------------------ the claims
RECURSIVE SumOver(_, _)
SumOver(f, S) ==
    IF S = {} THEN 0
    ELSE LET x == CHOOSE y \in S : TRUE IN f[x] + SumOver(f, S \ {x})

\* The allowed check_rate_limit calls on key k whose timestamp lies in the
\* rolling interval (T - window, T].
AdmittedIn(k, T) ==
    SumOver(admitted[k], {t \in Time : T - KeyWindow(k) * TicksPerSec < t /\ t <= T})

\* The entries of z that lie in the window of call f.
InWindow(z, f) == {e \in z : e.score > WindowStart(f)}

Returned(p) == rl[p].pc = "done" /\ rl[p].op = "check"

\* C1: for every key, the check_rate_limit calls that return allowed and
\* whose timestamps lie inside any rolling interval of `window` seconds never
\* number more than `limit`.
C1_WindowNeverExceeded ==
    \A k \in ZKeys, T \in Time : AdmittedIn(k, T) <= KeyLimit(k)

\* C2: when the key holds limit-1 entries in the window and two calls race,
\* their transactions run one after the other and exactly one of the two
\* calls returns allowed.
C2_ExactlyOneOfTwoRacers ==
    \A p, q \in Procs :
        (/\ p # q /\ Returned(p) /\ Returned(q)
         /\ rl[q].rival # 0 /\ rl[q].rival = rl[p].id)
        => (rl[p].allowed # rl[q].allowed)

\* C3: a call returns allowed=false only when at least `limit` entries of
\* events that were not rejected lie in its window: it never counts the entry
\* of an attempt that ends up rejected.
C3_RejectedOnlyByAdmitted ==
    \A p \in Procs :
        (Returned(p) /\ ~rl[p].allowed) => rl[p].genuine >= rl[p].limit

\* C4: a call that returns allowed=false leaves the key's set of in-window
\* entries exactly as it was before the call (the state after the roll back
\* of a call that no other call overlaps).
C4_RejectionLeavesEntries ==
    \A p \in Procs :
        (rl[p].pc = "zrange" /\ rl[p].solo)
        => InWindow(zs[rl[p].key], rl[p]) = InWindow(rl[p].pre, rl[p])

\* C5: if a key has received no call for `window` seconds, the next
\* check_rate_limit on it returns allowed with current_count 0, whatever
\* calls were allowed or rejected on the key before.
C5_QuietWindowReadmits ==
    \A p \in Procs :
        (Returned(p) /\ rl[p].quiet /\ rl[p].solo)
        => (rl[p].allowed /\ rl[p].count = 0)

\* C5 witness: a call returned after a quiet window on a key that had
\* admitted an event before.
C5_Witness ==
    \E p \in Procs :
        /\ Returned(p) /\ rl[p].quiet /\ rl[p].solo
        /\ \E t \in Time : t <= WindowStart(rl[p]) /\ admitted[rl[p].key][t] > 0

\* C6: if a store operation of check_rate_limit fails (the transaction, the
\* roll back or the read of the oldest entry), the call returns allowed with
\* count 0 and reset = window, and the error does not reach the caller.
C6_FailOpen ==
    \A p \in Procs :
        rl[p].fault =>
            /\ rl[p].pc = "done"
            /\ rl[p].allowed /\ rl[p].count = 0 /\ rl[p].reset = rl[p].window

\* C6 witness: the roll back of a rejected attempt failed, and the call
\* returned allowed.
C6_Witness ==
    \E p \in Procs :
        /\ rl[p].fault /\ rl[p].pc = "done" /\ rl[p].allowed
        /\ ZCard(InWindow(rl[p].pre, rl[p])) >= rl[p].limit

MwDone(p) == mw[p].pc = "done"

\* C7: if a live block record exists when the middleware makes its block
\* check, the request is rejected as blocked, the handler is not called and
\* no command of the request runs on the primary or the spam window key.
C7_BlockedBeforeWindows ==
    \A p \in Procs :
        mw[p].blockLive =>
            /\ MwDone(p) /\ mw[p].outcome = "blocked"
            /\ ~mw[p].handler /\ mw[p].touched = {}

\* C7 witness: a request met the block record that an earlier request wrote.
C7_Witness ==
    \E p, q \in Procs :
        /\ p # q /\ MwDone(p) /\ mw[p].blockLive /\ mw[p].outcome = "blocked"
        /\ MwDone(q) /\ mw[q].wrote

\* C8: for a principal that is not blocked and whose primary check disallows,
\* the block record is written (with a TTL of block_duration) and the request
\* is rejected as blocked if and only if the spam check disallows too;
\* otherwise the request is rejected as rate limited with the primary check's
\* reset time and no block record is written; the handler is not called.
C8_EscalationOnSpam ==
    /\ \A p \in Procs :
        (MwDone(p) /\ ~mw[p].blockLive /\ ~mw[p].pAllowed) =>
            /\ ~mw[p].handler
            /\ ~mw[p].sAllowed => (mw[p].outcome = "blocked_now" /\ mw[p].wrote)
            /\ mw[p].sAllowed =>
                (mw[p].outcome = "rate_limited" /\ ~mw[p].wrote
                    /\ mw[p].retry = mw[p].pReset)
    /\ block # NoTTL => (now < block /\ block <= ExpireAt(conf.block_duration))

\* C8 witness: one request was rejected as rate limited and another one
\* wrote the block record, which is live.
C8_Witness ==
    \E p, q \in Procs :
        /\ MwDone(p) /\ mw[p].outcome = "rate_limited" /\ ~mw[p].pAllowed
        /\ MwDone(q) /\ mw[q].outcome = "blocked_now" /\ ~mw[q].sAllowed
        /\ block # NoTTL

\* C9: every request that the primary check allows records one event on the
\* principal's spam key.
C9_AllowedRequestRecordedOnSpamKey ==
    \A p \in Procs :
        (MwDone(p) /\ mw[p].outcome = "passed") => "spam" \in mw[p].touched

\* The number of the request in coroutine p's middleware frame, counted from 1.
Nth(p) == ScenarioRequests - mw[p].id + 1

\* C10: with a primary limit of 5 per 60 s and a spam limit of 7 per 3600 s,
\* of the requests that one principal sends in rapid succession the first 5
\* are allowed, the next 3 are rejected as rate limited and none of them
\* blocks, the rejection that finds 7 attempts in the spam window (the 13th
\* request) writes the block record and is reported as blocked, and every
\* later request is rejected as blocked with no call to the rate limiter.
C10_SpamEscalationScenario ==
    \A p \in Procs :
        (MwDone(p) /\ mw[p].id > 0) =>
            /\ Nth(p) \in 1..5 => mw[p].outcome = "passed"
            /\ Nth(p) \in 6..12 => mw[p].outcome = "rate_limited"
            /\ Nth(p) = 13 => (mw[p].outcome = "blocked_now" /\ mw[p].wrote)
            /\ Nth(p) > 13 => (mw[p].outcome = "blocked" /\ mw[p].touched = {})

\* C11: the block record is created (or renewed) only by a request that the
\* primary check and then the spam check rejected, never by an allowed
\* request; and it disappears only when its TTL has run out or unblock_user
\* deletes it.
C11_EscalationOrder ==
    [][/\ (block' # block /\ block' # NoTTL) =>
            \E p \in Procs :
                /\ mw[p].pc = "setex" /\ ~mw[p].pAllowed /\ ~mw[p].sAllowed
                /\ ~mw[p].handler /\ mw'[p].wrote
       /\ (block # NoTTL /\ block' = NoTTL) =>
            \/ UnblockUser
            \/ (now' = now + 1 /\ block <= now')]_vars

\* C11 witness: a request wrote the block record and the record is gone
\* again, the principal being served anew.
C11_Witness ==
    \E p, q \in Procs :
        /\ MwDone(p) /\ mw[p].wrote
        /\ block = NoTTL
        /\ MwDone(q) /\ mw[q].outcome = "passed" /\ mw[q].id < mw[p].id

AcDone(p) == ac[p].pc = "done"

\* C12: when the identity lookup raises, finds no row or finds a role string
\* that is no known role, the principal is resolved as USER: has_permission
\* is true only for READ and has_role is true only for USER.
C12_FailClosed ==
    \A p \in Procs :
        (AcDone(p) /\ ac[p].fault) =>
            /\ ac[p].op = "has_permission" => (ac[p].result => ac[p].perm = "read")
            /\ ac[p].op = "has_role" => (ac[p].result <=> ac[p].role = "user")

\* C13: after grant_permission(u, p) has returned true, has_permission(u, p)
\* is true, and after revoke_permission(u, p) has returned true it is false,
\* until the next grant, revoke or clear_cache that concerns u.
C13_ReadYourWrites ==
    \A p \in Procs :
        (AcDone(p) /\ ac[p].op = "has_permission" /\ ac[p].use_cache
            /\ ac[p].after.perm = ac[p].perm) =>
            /\ ac[p].after.kind = "grant" => ac[p].result
            /\ ac[p].after.kind = "revoke" => ~ac[p].result

\* C14: clear_cache(v) with a principal id v removes v's entry and no other
\* one; only clear_cache(None) empties the whole cache.
C14_ClearCacheOnlyOne ==
    [][\A p \in Procs :
        (left' # left /\ ac'[p] # ac[p] /\ ac'[p].op = "clear_cache"
            /\ ac'[p].arg # <<>>) =>
                /\ cache'[ac'[p].arg[1]] = NoEntry
                /\ \A u \in Users \ {ac'[p].arg[1]} : cache'[u] = cache[u]
                /\ ROLE_PERMISSIONS' = ROLE_PERMISSIONS]_vars

\* C15: ROLE_PERMISSIONS is never modified at run time: every role maps to
\* the permission set it had at start-up, and SUPER_ADMIN's set is the whole
\* Permission universe.
C15_RoleTableImmutable ==
    /\ ROLE_PERMISSIONS = RolePermissionsLiteral
    /\ ROLE_PERMISSIONS["super_admin"] = Permission

\* A call of validate has returned.
Validated == wh.pc = "done" /\ wh.op = "validate"

\* The secret that the validator holds for the provider that an id names.
SecretOf(id) == IF Lower(id) \in Providers THEN secrets[Lower(id)] ELSE "none"

\* C16: validate returns false and does not raise when the provider id names
\* none of the six providers or the provider's secret is unset or empty,
\* whatever the payload and the signature, a signature equal to the empty
\* secret included.
C16_UnconfiguredRejected ==
    (Validated /\ SecretOf(wh.provider) \in {"none", ""})
        => (~wh.result /\ ~wh.raised)

\* The shared-secret-token provider without secret was presented the empty
\* token and rejected it.
C16_Witness ==
    /\ Validated
    /\ wh.provider = "stars" /\ secrets["stars"] = ""
    /\ wh.signature = Sig(Text(""), "exact")
    /\ ~wh.result

\* The payload holds what the provider's scheme signs: event and object id
\* for yookassa, the three order fields for freekassa, a timestamp that is a
\* number where there is one.
WellFormed(provider, payload) ==
    /\ provider = "yookassa"
        => payload.object # "null" /\ ~Falsy(payload.event) /\ ~Falsy(ObjectId(payload))
    /\ provider = "freekassa"
        => ~Falsy(payload.MERCHANT_ID) /\ ~Falsy(payload.AMOUNT)
            /\ ~Falsy(payload.MERCHANT_ORDER_ID)
    /\ payload.timestamp.kind # "str"

\* The payload's timestamp, if it has one, is at most replay_window seconds
\* from the clock reading.
Fresh(payload, clock) ==
    payload.timestamp.kind = "int"
        => Abs(clock - payload.timestamp.value * TicksPerSec) <= replay_window * TicksPerSec

\* C17: for each provider with a configured secret, the signature that the
\* provider's scheme yields for a payload validates (the timestamp being
\* fresh where it is checked), and a signature that differs from it in one
\* byte does not validate.
C17_SignatureRoundTrip ==
    (/\ Validated
     /\ Configured(SecretOf(wh.provider))
     /\ WellFormed(Lower(wh.provider), wh.payload)
     /\ Fresh(wh.payload, wh.clock))
        => LET expected == ExpectedSignature(Lower(wh.provider), SecretOf(wh.provider),
                                             wh.payload)
           IN /\ wh.signature = expected => wh.result
              /\ (wh.signature.digest = expected.digest /\ wh.signature # expected)
                    => ~wh.result

\* The call presented the signature of the provider's scheme for the payload.
CorrectlySigned ==
    wh.signature = ExpectedSignature(Lower(wh.provider), SecretOf(wh.provider), wh.payload)

\* C18: cryptopay and panel reject a correctly signed payload whose timestamp
\* is more than replay_window seconds from the time of the call and accept
\* one whose timestamp is at most that far; a payload with a wrong signature
\* is rejected whatever its timestamp.
C18_ReplayWindow ==
    (/\ Validated
     /\ Lower(wh.provider) \in {"cryptopay", "panel"}
     /\ Configured(SecretOf(wh.provider))
     /\ wh.payload.timestamp.kind = "int")
        => /\ CorrectlySigned => (wh.result <=> Fresh(wh.payload, wh.clock))
           /\ ~CorrectlySigned => ~wh.result

\* A request to a decorated handler has been answered.
Served == wh.pc = "done" /\ wh.op = "webhook"

\* The checks of a request, each stated on the request itself.
AddressPassed ==
    (wh.request.check_ip /\ wh.request.has_whitelist)
        => IsAllowed(whitelists, wh.provider, ClientIp(wh.request))
SignaturePresent == wh.request.has_signature /\ wh.signature # Sig(Text(""), "exact")
SignatureAccepted == Validate(wh.provider, wh.payload, wh.signature, wh.clock).value

LexLeq(a, b) ==
    \/ a = b
    \/ \E i \in DOMAIN a : a[i] < b[i] /\ \A j \in 1..(i - 1) : a[j] = b[j]

\* The address lies between the first and the last address of the network.
InRange(network, ip) ==
    /\ network.version = ip.version
    /\ LexLeq(network.groups, ip.groups)
    /\ LexLeq(ip.groups,
              [i \in DOMAIN network.groups |->
                  network.groups[i]
                      + 2 ^ (GroupWidth(network.version)
                                - KeptBits(network.version, network.prefix, i)) - 1])

\* The address text of the last is_allowed call is a valid address.
ValidAddress == ParseAddress(wh.address) # Invalid

RoleOf(u) ==
    IF session THEN GetUserRole([raised |-> FALSE, row |-> db[u]]) ELSE "user"

\* Coroutine p's call of `op` returns in this step.
Returns(p, op) == ac'[p] # ac[p] /\ ac'[p].pc = "done" /\ ac'[p].op = op

\* C21: for a principal that no grant_permission or revoke_permission call
\* concerns, has_permission(u, p) is (p in the role table's set for the
\* principal's role) and get_user_permissions(u) is that set, on a cache miss
\* and on a cache hit; so a moderator has view_payments and not manage_users.
C21_RoleTableResolution ==
    [][\A p \in Procs :
          LET u == ac'[p].user
              granted == RolePermissionsLiteral[RoleOf(u)]
          IN /\ (Returns(p, "has_permission") /\ written[u] = NoWrite)
                    => (ac'[p].result <=> ac'[p].perm \in granted)
             /\ (Returns(p, "get_user_permissions") /\ written[u] = NoWrite)
                    => ac'[p].perms = granted]_vars

\* The requests that the primary check has allowed so far.
PassedPrimary == SumOver(admitted["user"], Time)

\* Every request that the principal has sent has passed the primary check
\* or still waits for it.
NeverRejected ==
    MaxRequests - left = PassedPrimary + Cardinality({p \in Procs : mw[p].pc = "primary"})

\* C22: while no request of the principal has been rejected by the primary
\* check, no block record exists and no request has written one, however
\* many requests the principal has sent.
C22_UnderLimitNeverBlocked ==
    NeverRejected => (block = NoTTL /\ \A p \in Procs : ~mw[p].wrote /\ mw[p].pc # "setex")

\* C22 witness: all MaxRequests requests were sent and passed, more of them
\* than the spam limit.
C22_Witness ==
    /\ left = 0 /\ NeverRejected
    /\ \A p \in Procs : mw[p].pc \in {"idle", "done"}
    /\ PassedPrimary = MaxRequests /\ conf.spam_limit < MaxRequests

\* block_duration, in ticks.
BlockTicks == conf.block_duration * TicksPerSec

\* C23: the block record is written with a TTL of block_duration, a request
\* that meets the record is rejected and leaves the record's TTL as it is,
\* and the record is gone at the tick at which block_duration has passed
\* since its last write.
C23_BlockTtlNotExtended ==
    [][/\ (block' # block /\ block' # NoTTL) => block' = now + BlockTicks
       /\ \A p \in Procs :
            (mw'[p] # mw[p] /\ mw'[p].outcome = "blocked") => block' = block
       /\ (block # NoTTL /\ now' # now /\ now' >= block) => block' = NoTTL
       /\ block # NoTTL => block <= now + BlockTicks]_vars

\* C23 witness: a request sent after the block was written was rejected as
\* blocked, and the record has less than block_duration left to live.
C23_Witness ==
    \E p, q \in Procs :
        /\ MwDone(p) /\ mw[p].wrote
        /\ MwDone(q) /\ mw[q].outcome = "blocked" /\ mw[q].id < mw[p].id
        /\ block # NoTTL /\ block - now < BlockTicks

\* Every entry of the two windows is the entry of a check that was allowed.
OnlyAdmittedEntries(z) ==
    \A k \in ZKeys : \A e \in z[k] : admitted[k][e.score] > 0

\* C24: when a request that passed the block check writes the block record
\* while the record that a concurrent request wrote exists, there is one
\* record afterwards, its TTL is block_duration from this later write, both
\* requests are rejected as blocked, and no entry of theirs is left in the
\* primary or the spam window.
C24_DoubleBlockHarmless ==
    [][\A p, q \in Procs :
          (/\ p # q
           /\ MwDone(p) /\ mw[p].wrote /\ ~mw[p].blockLive
           /\ block # NoTTL
           /\ mw[q].pc = "setex" /\ ~mw[q].blockLive /\ mw'[q].pc = "done")
          => /\ block' = now + BlockTicks
             /\ mw'[q].outcome = "blocked_now" /\ mw'[p].outcome = "blocked_now"
             /\ ~mw'[q].handler /\ ~mw'[p].handler
             /\ OnlyAdmittedEntries(zs')]_vars

\* C24 witness: both coroutines' requests passed the block check, both wrote
\* the record, the later one just now.
C24_Witness ==
    /\ \A p \in Procs : MwDone(p) /\ mw[p].wrote /\ ~mw[p].blockLive
    /\ block = now + BlockTicks

\* C25: after a block has ended, by expiry or by unblock_user, a request
\* that the primary check rejects writes a new block record only if the spam
\* window holds an entry made since the earlier block was written: the
\* entries left over from before that block do not block the principal anew.
C25_NoPartialUnblock ==
    \A p \in Procs :
        (/\ mw[p].pc = "setex"
         /\ ~mw[p].blockLive
         /\ block = NoTTL
         /\ last["blocked"] >= 0)
            => \E e \in zs["spam"] : e.score >= last["blocked"]

\* C26: the roll back of a rejected check_rate_limit call whose ZADD found
\* its member present, because an earlier event of the key carries the same
\* timestamp, and so inserted nothing, removes nothing: the entries of the
\* key stay as they were.
C26_RollbackOwnEntryOnly ==
    [][\A p \in Procs :
          (rl[p].pc = "zrem" /\ rl'[p].pc = "zrange" /\ ~rl[p].created)
              => zs'[rl[p].key] = zs[rl[p].key]]_vars

\* C27: every rejected check_rate_limit call returns a reset time between 0
\* and its window, whatever other calls on the key ran between its reading
\* of the clock and its ZRANGE.
C27_ResetTimeInRange ==
    \A p \in Procs :
        (rl[p].pc = "done" /\ rl[p].op = "check" /\ ~rl[p].allowed)
            => (0 <= rl[p].reset /\ rl[p].reset <= rl[p].window)

\* C28: a check_rate_limit call that no other call overlaps returns as
\* current_count the number of entries that the key held when the call began
\* and whose timestamp t satisfies T - window < t <= T, T being the call's
\* current_time: older entries are purged before the count and the call's
\* own entry is not counted.
C28_SequentialCount ==
    \A p \in Procs :
        (rl[p].op = "check" /\ rl[p].pc \in {"zrem", "zrange", "done"} /\ rl[p].solo)
            => rl[p].count =
                 Cardinality({e \in rl[p].pre :
                                 WindowStart(rl[p]) < e.score /\ e.score <= rl[p].ct})

\* C28 witness: a call that ran alone found an entry inside its window and
\* one that had left it, and counted one.
C28_Witness ==
    \E p \in Procs :
        /\ rl[p].op = "check" /\ rl[p].pc = "done" /\ rl[p].solo
        /\ rl[p].count = 1
        /\ \E e \in rl[p].pre : e.score <= WindowStart(rl[p])
        /\ \E e \in rl[p].pre : e.score > WindowStart(rl[p])

\* C29: an increment call that no other call overlaps returns a count that
\* holds no entry older than the window: the count is at most the number of
\* events recorded on the key, this one included, whose timestamp lies in
\* (T - window, T], T being the call's current_time.
C29_IncrementCountsWindow ==
    \A p \in Procs :
        (rl[p].op = "incr" /\ rl[p].pc = "done" /\ rl[p].solo)
            => rl[p].count <= AdmittedIn(rl[p].key, rl[p].ct)

\* C30: cryptopay and panel reject a correctly signed payload that carries no
\* timestamp field.
C30_TimestampRequired ==
    (/\ Validated
     /\ Lower(wh.provider) \in {"cryptopay", "panel"}
     /\ Configured(SecretOf(wh.provider))
     /\ wh.payload.timestamp.kind = "absent"
     /\ CorrectlySigned)
        => ~wh.result

\* C31: with check_ip set and a validator in place, a request whose first-hop
\* address the provider's allowlist does not hold is answered 403 before the
\* signature is looked at, and the handler does not run, whether or not an
\* IP allowlist object is registered with the application.
C31_AddressCheckAlwaysRuns ==
    (/\ Served
     /\ wh.request.has_validator
     /\ wh.request.check_ip
     /\ ~IsAllowed(whitelists, wh.provider, ClientIp(wh.request)))
        => (wh.status = 403 /\ wh.handler = 0)

\* The permission set that has_permission and get_user_permissions answer
\* from for principal v: v's cache entry, or the table entry of v's role.
ResolvedSet(v) == IF Cached(v) THEN CachePerms(v) ELSE ROLE_PERMISSIONS[RoleOf(v)]

\* C35: a grant_permission or revoke_permission call for principal u that
\* returns leaves the resolved permission set of every other principal as it
\* was.
C35_GrantRevokeLocal ==
    [][\A p \in Procs :
          (Returns(p, "grant_permission") \/ Returns(p, "revoke_permission"))
              => \A v \in Users \ {ac'[p].user} : ResolvedSet(v)' = ResolvedSet(v)]_vars

\* Coroutine p starts a call of `op` in this step.
Starts(p, op) == ac[p].pc \in {"idle", "done"} /\ ac'[p] # ac[p] /\ ac'[p].op = op

C39_IsBlockedRecords ==
    [][\A p \in Procs :
          LET f == rl'[p]
              k == f.key
          IN (rl[p].pc # "done" /\ f.pc = "done" /\ f.op = "is_blocked" /\ f.solo)
                => /\ ~IsBlocked(f) =>
                        Cardinality(InWindow(zs'[k], f)) = Cardinality(InWindow(f.pre, f)) + 1
                   /\ IsBlocked(f) => zs'[k] = f.pre]_vars

\* C33: when the handler of a request that passed the primary check is
\* about to run, the principal's activity record holds the event's kind, its
\* payload summary cut to 100 characters and its timestamp, and it has a TTL
\* of at most 24 hours.
C33_ActivityRecorded ==
    \A c \in Procs :
        (greq[c].pc = "handler" /\ ~greq[c].skipped) =>
            LET v == redis[Key("activity", UserOf(greq[c]))]
            IN /\ v.kind = "hash"
               /\ v.hash = ActivityHash(greq[c].event)
               /\ v.hash.data <= 100
               /\ v.ttl # NoTTL
               /\ v.ttl <= ExpireAt(activity_ttl)

\* C34: a request under which a store call of the middleware failed ends
\* with the middleware not having raised and the handler having run.
C34_OutageForwards ==
    \A c \in Procs :
        (greq[c].pc = "done" /\ greq[c].failed) => (~greq[c].raised /\ greq[c].handler)

\* C36: the check of rate_limit_user counts, as requests already made, the
\* entries that rate_limit_user itself has added in its window and no
\* others, and an entry that rate_limit_user added stays in the store for
\* the whole of its window.
C36_OwnWindows ==
    /\ \A c \in Procs :
          (greq[c].pc = "done" /\ greq[c].deco.kind = "rate_limit_user" /\ ~greq[c].skipped) =>
              greq[c].count = greq[c].tagged
    /\ \A c \in Procs :
          (greq[c].pc = "done" /\ greq[c].deco.kind = "rate_limit_user" /\ greq[c].handler
           /\ greq[c].event.date + greq[c].deco.window * TicksPerSec > now) =>
              \E e \in redis[DecoratorKey(UserOf(greq[c]))].entries :
                  e.score >= greq[c].event.date

\* C32: the step in which a gated handler is reached calls the handler only
\* if a checker was supplied, the user was identified and the check answered
\* true; a step that does not call it leaves the store as it is and makes no
\* rate limiter call, so that the request of an identified user has made the
\* one check of the middleware's primary window and no other.
C32_GateFailsClosed ==
    [][\A c \in Procs :
          (greq[c].pc = "handler" /\ greq'[c].pc = "done" /\ Gated(greq[c])) =>
              /\ greq'[c].handler =>
                    (greq[c].deco.checker /\ UserOf(greq[c]) # 0 /\ greq[c].deco.granted)
              /\ ~greq'[c].handler =>
                    /\ greq'[c].outcome = "forbidden"
                    /\ redis' = redis
                    /\ greq'[c].checks = greq[c].checks
                    /\ greq'[c].checks = IF greq[c].skipped THEN 0 ELSE 1]_vars

\* A request of an identified user, with a checker, whose check answered
\* false has ended: forbidden, handler not called, one rate limiter check.
C32_Witness ==
    \E c \in Procs :
        /\ greq[c].pc = "done" /\ Gated(greq[c])
        /\ greq[c].deco.checker /\ UserOf(greq[c]) = 1 /\ ~greq[c].deco.granted
        /\ greq[c].outcome = "forbidden" /\ ~greq[c].handler /\ greq[c].checks = 1

\* The store without the keys of any principal but u.
OnlyKeysOf(r, u) == [k \in Keys |-> IF k.id = u THEN r[k] ELSE NoValue]

\* C38: a step of a governed request of principal u changes no key of
\* another principal, and what it decides and what it writes to u's keys is
\* what it would on a store that held u's keys alone.
C38_PrincipalIsolation ==
    [][\A c \in Procs :
          (greq[c].pc \notin {"idle", "done"} /\ greq'[c] # greq[c]) =>
              LET u == UserOf(greq[c])
                  s == GovernedStep(OnlyKeysOf(redis, u), greq[c])
              IN /\ \A k \in Keys : k.id # u => redis'[k] = redis[k]
                 /\ greq'[c] = s.frame
                 /\ OnlyKeysOf(redis', u) = s.redis]_vars

\* User 1 has just been blocked while a request of user 2, made in between,
\* is at its handler, and user 2 has no block record.
C38_Witness ==
    /\ greq[1].pc = "done" /\ greq[1].outcome = "blocked_now" /\ UserOf(greq[1]) = 1
    /\ greq[2].pc = "handler" /\ UserOf(greq[2]) = 2 /\ greq[2].id > greq[1].id
    /\ RExists(redis, Key("blocked", 1)) /\ ~RExists(redis, Key("blocked", 2))
    /\ RExists(redis, Key("user", 2))

====
